---- MODULE Spec2Model ----
(***************************************************************************)
(* A model of fuse-archive (src/src/main.cc): the bootstrap pass that      *)
(* builds the in-memory directory tree from one forward scan of the        *)
(* archive, and the FUSE read path (reader cache, side buffers) that       *)
(* serves random offsets from forward-only libarchive streams.             *)
(*                                                                         *)
(* Strings are sequences of one-character strings; a C string's            *)
(* terminator is the value NUL read one past the end.  Pointers are        *)
(* positive identifiers with 0 for nullptr.                                *)
(***************************************************************************)
EXTENDS Integers, Sequences, FiniteSets, TLC

\* ---------------------------------------------------------------- bounds

\* Compile-time configuration (#ifndef macros, overridable with -D): the
\* model is of a build with small caches and tiny side buffers.
NUM_SAVED_READERS == 2
NUM_SIDE_BUFFERS == 2
SIDE_BUFFER_SIZE == 2
SIDE_BUFFER_INDEX_COMPRESSED == 0
SIDE_BUFFER_INDEX_DECOMPRESSED == 1
block_size == 512

\* Bounds of the model.
MaxHandles == 2
MaxFill == 2
MaxEntries == 3
MaxPathLen == 4
MaxRequests == 3   \* requests of the library for the password in a run
MaxStdin == 3      \* the most characters standard input holds
MaxOps == 5        \* open, read and release requests in a run
MaxOff == 4        \* the largest offset a read asks for
MaxLen == 2        \* the largest length a read asks for, INT_MAX + 1 aside
LruBits == 5       \* the width of the uint64_t LRU counters
IntBits == 4       \* the width of int

\* Exit codes.
EXIT_SUCCESS == 0
EXIT_FAILURE == 1
EXIT_CODE_GENERIC_FAILURE == 1
EXIT_CODE_CANNOT_OPEN_ARCHIVE == 11
EXIT_CODE_PASSPHRASE_REQUIRED == 20
EXIT_CODE_PASSPHRASE_INCORRECT == 21
EXIT_CODE_PASSPHRASE_NOT_SUPPORTED == 22
EXIT_CODE_INVALID_RAW_ARCHIVE == 30
EXIT_CODE_INVALID_ARCHIVE_HEADER == 31
EXIT_CODE_INVALID_ARCHIVE_CONTENTS == 32

\* errno values (negated in replies).
ENOENT == 2
EIO == 5
ENOMEM == 12
EACCES == 13
ENOTDIR == 20
EISDIR == 21
EINVAL == 22
ENOLINK == 67

\* <limits.h>, <fcntl.h>.
INT_MAX == 2 ^ (IntBits - 1) - 1
O_ACCMODE == 3
O_RDONLY == 0

\* <sys/stat.h> mode bits.
S_IFMT == 15 * 4096
S_IFIFO == 1 * 4096
S_IFCHR == 2 * 4096
S_IFDIR == 4 * 4096
S_IFBLK == 6 * 4096
S_IFREG == 8 * 4096
S_IFLNK == 10 * 4096
S_IFSOCK == 12 * 4096
PERM_RX == 365   \* 0555
PERM_R == 292    \* 0444

\* ------------------------------------------------------------- utilities

Min(a, b) == IF a < b THEN a ELSE b

RECURSIVE BitAnd(_, _)
BitAnd(a, b) ==
  IF a = 0 \/ b = 0 THEN 0
  ELSE (a % 2) * (b % 2) + 2 * BitAnd(a \div 2, b \div 2)

RECURSIVE BitOr(_, _)
BitOr(a, b) ==
  IF a = 0 THEN b
  ELSE IF b = 0 THEN a
  ELSE (IF (a % 2) + (b % 2) > 0 THEN 1 ELSE 0) + 2 * BitOr(a \div 2, b \div 2)

S_ISDIR(m) == BitAnd(m, S_IFMT) = S_IFDIR
S_ISREG(m) == BitAnd(m, S_IFMT) = S_IFREG
S_ISLNK(m) == BitAnd(m, S_IFMT) = S_IFLNK
S_ISBLK(m) == BitAnd(m, S_IFMT) = S_IFBLK
S_ISCHR(m) == BitAnd(m, S_IFMT) = S_IFCHR
S_ISFIFO(m) == BitAnd(m, S_IFMT) = S_IFIFO
S_ISSOCK(m) == BitAnd(m, S_IFMT) = S_IFSOCK

\* ------------------------------------------------------------- pathnames

NUL == "NUL"
NullStr == <<"nullptr">>

\* s[i] of a C string, 1-based; the terminator one past the end.
At(s, i) == IF i <= Len(s) THEN s[i] ELSE NUL

\* The inner loop of valid_pathname: r scans from q to the next '/' or NUL.
\* Returns 0 when a '/' is met and slashes are not allowed.
RECURSIVE ScanFragment(_, _, _)
ScanFragment(p, r, allow_slashes) ==
  IF At(p, r) = NUL THEN r
  ELSE IF At(p, r) # "/" THEN ScanFragment(p, r + 1, allow_slashes)
  ELSE IF ~allow_slashes THEN 0
  ELSE r

\* valid_pathname's outer loop without its test for "..": what C4 rules out.
RECURSIVE ValidFragmentsDotDot(_, _, _)
ValidFragmentsDotDot(p, q, allow_slashes) ==
  LET r == ScanFragment(p, q, allow_slashes)
      len == r - q
  IN IF r = 0 THEN FALSE
     ELSE IF len = 0 THEN FALSE
     ELSE IF len = 1 /\ At(p, q) = "." THEN FALSE
     ELSE IF At(p, r) = NUL THEN TRUE
     ELSE ValidFragmentsDotDot(p, r + 1, allow_slashes)

\* The outer loop of valid_pathname, from fragment start q.
RECURSIVE ValidFragments(_, _, _)
ValidFragments(p, q, allow_slashes) ==
  LET r == ScanFragment(p, q, allow_slashes)
      len == r - q
  IN IF r = 0 THEN FALSE
     ELSE IF len = 0 THEN FALSE
     ELSE IF len = 1 /\ At(p, q) = "." THEN FALSE
     ELSE IF len = 2 /\ At(p, q) = "." /\ At(p, q + 1) = "." THEN FALSE
     ELSE IF At(p, r) = NUL THEN TRUE
     ELSE ValidFragments(p, r + 1, allow_slashes)

valid_pathname(p, allow_slashes) ==
  IF p = NullStr THEN FALSE
  ELSE
    LET lead == IF At(p, 1) = "." /\ At(p, 2) = "/" THEN 2
                ELSE IF At(p, 1) = "/" THEN 1
                ELSE 0
        q == 1 + lead
    IN IF lead > 0 /\ ~allow_slashes THEN FALSE
       ELSE IF At(p, q) = NUL THEN FALSE
       ELSE ValidFragments(p, q, allow_slashes)

\* The string from position i on (s + (i-1) in C).
From(s, i) == SubSeq(s, i, Len(s))

\* The pathname the library reports for entry e: the UTF-8 one, else the
\* raw one, else none.
EntryPathname(e) ==
  IF e.pathname_utf8 # NullStr THEN e.pathname_utf8 ELSE e.pathname

\* normalize_pathname: "" (the empty sequence) on rejection.
normalize_pathname(e, is_raw, innername) ==
  LET s0 == EntryPathname(e)
      s == IF is_raw /\ innername # NullStr /\ innername # <<>>
              /\ s0 = <<"d", "a", "t", "a">>
           THEN innername ELSE s0
  IN IF s0 = NullStr THEN <<>>
     ELSE IF ~valid_pathname(s, TRUE) THEN <<>>
     ELSE IF At(s, 1) = "." /\ At(s, 2) = "/" THEN From(s, 2)
     ELSE IF At(s, 1) = "/" THEN s
     ELSE <<"/">> \o s

\* ------------------------------------------------------- directory tree

\* The tree state is the record
\*   [by_name, nodes, by_index, block_count]
\* by_name: g_nodes_by_name, from absolute pathnames to node pointers;
\* nodes: the heap of Node objects, a pointer being a position in it;
\* by_index: g_nodes_by_index (position i+1 holds index i), 0 for nullptr.

NewNode(rel_name, symlink, index_within_archive, size, mtime, mode) ==
  [rel_name |-> rel_name, symlink |-> symlink,
   index_within_archive |-> index_within_archive,
   size |-> size, mtime |-> mtime, mode |-> mode,
   parent |-> 0, last_child |-> 0, first_child |-> 0, next_sibling |-> 0]

is_dir(node) == S_ISDIR(node.mode)

\* add_child linking the new node in front of its siblings: what C8's
\* insertion order rules out.
add_child_front(nodes, this, n) ==
  LET dir == nodes[this]
      linked == [nodes EXCEPT ![this].size = dir.size + block_size,
                              ![n].parent = this]
  IN IF dir.last_child = 0
     THEN [linked EXCEPT ![this].last_child = n, ![this].first_child = n]
     ELSE [linked EXCEPT ![n].next_sibling = dir.first_child,
                         ![this].first_child = n]

\* add_child counting a block for the first child only: what C33's size
\* of a directory rules out.
add_child_one_block(nodes, this, n) ==
  LET dir == nodes[this]
      linked == [nodes EXCEPT ![n].parent = this]
  IN IF dir.last_child = 0
     THEN [linked EXCEPT ![this].last_child = n, ![this].first_child = n,
                         ![this].size = dir.size + block_size]
     ELSE [linked EXCEPT ![dir.last_child].next_sibling = n,
                         ![this].last_child = n]

\* Node::add_child on the heap: this is the pointer of the directory.
add_child(nodes, this, n) ==
  LET dir == nodes[this]
      linked == [nodes EXCEPT ![this].size = dir.size + block_size,
                              ![n].parent = this]
  IN IF dir.last_child = 0
     THEN [linked EXCEPT ![this].last_child = n, ![this].first_child = n]
     ELSE [linked EXCEPT ![dir.last_child].next_sibling = n,
                         ![this].last_child = n]

\* get_block_count rounding down: what C14's count of blocks rules out.
get_block_count_floor(node) == node.size \div block_size

get_block_count(node) == (node.size + (block_size - 1)) \div block_size

\* std::vector::resize(n) followed by push_back(v).
RECURSIVE Resize(_, _)
Resize(v, n) ==
  IF Len(v) > n THEN SubSeq(v, 1, n)
  ELSE IF Len(v) = n THEN v
  ELSE Resize(Append(v, 0), n)

\* r scans from q to the next '/' or NUL (insert_leaf_node's inner loop).
RECURSIVE ScanComponent(_, _)
ScanComponent(p, r) ==
  IF At(p, r) # NUL /\ At(p, r) # "/" THEN ScanComponent(p, r + 1) ELSE r

\* The directory modes and leaf modes insert_leaf_node derives from an
\* entry's mode.
BranchMode(mode) ==
  BitOr(BitOr(BitAnd(mode, PERM_RX), BitAnd(BitAnd(mode, PERM_RX), PERM_R) \div 4),
        S_IFDIR)

LeafMode(mode, symlink) ==
  BitOr(BitAnd(mode, PERM_RX), IF symlink = <<>> THEN S_IFREG ELSE S_IFLNK)

\* The top of the loop body leaving the directory's mtime alone: what
\* C31's order of mtimes rules out.
TouchModeOnly(heap, parent, mtime, branch_mode) ==
  [heap EXCEPT ![parent].mode = BitOr(heap[parent].mode, branch_mode)]

\* The top of the loop body: the directory's mtime and mode are updated.
Touch(heap, parent, mtime, branch_mode) ==
  [heap EXCEPT
     ![parent].mtime = IF heap[parent].mtime < mtime THEN mtime
                       ELSE heap[parent].mtime,
     ![parent].mode = BitOr(heap[parent].mode, branch_mode)]

\* The leaf branch pushing the Node on g_nodes_by_index without the
\* resize: what C29's position of a leaf rules out.
InsertExplicitLeafNoResize(T, leaf, parent, abs_pathname, rel_pathname) ==
  IF abs_pathname \in DOMAIN T.by_name
  THEN T
  ELSE [by_name |-> (abs_pathname :> (Len(T.nodes) + 1)) @@ T.by_name,
        nodes |-> add_child(
                    Append(T.nodes,
                           NewNode(rel_pathname, leaf.symlink,
                                   leaf.index_within_archive, leaf.size,
                                   leaf.mtime, LeafMode(leaf.mode, leaf.symlink))),
                    parent, Len(T.nodes) + 1),
        by_index |-> Append(T.by_index, Len(T.nodes) + 1),
        block_count |->
          T.block_count
          + get_block_count([size |-> leaf.size]) + 1]

\* The leaf branch of the loop body (*r == 0): T is the tree with the
\* parent already touched.
InsertExplicitLeaf(T, leaf, parent, abs_pathname, rel_pathname) ==
  IF abs_pathname \in DOMAIN T.by_name
  THEN T   \* name collision: the new Node is deleted
  ELSE [by_name |-> (abs_pathname :> (Len(T.nodes) + 1)) @@ T.by_name,
        nodes |-> add_child(
                    Append(T.nodes,
                           NewNode(rel_pathname, leaf.symlink,
                                   leaf.index_within_archive, leaf.size,
                                   leaf.mtime, LeafMode(leaf.mode, leaf.symlink))),
                    parent, Len(T.nodes) + 1),
        by_index |-> Append(Resize(T.by_index, leaf.index_within_archive),
                            Len(T.nodes) + 1),
        block_count |->
          T.block_count
          + get_block_count([size |-> leaf.size]) + 1]

\* The branch part of the loop body linking the new directory under the
\* root whatever directory the walk is in: what C39's parent of a node
\* rules out.
InsertImplicitBranchUnderRoot(T, leaf, parent, abs_pathname, rel_pathname) ==
  [T EXCEPT
     !.by_name = (abs_pathname :> (Len(T.nodes) + 1)) @@ T.by_name,
     !.nodes = add_child(
                 Append(T.nodes,
                        NewNode(rel_pathname, <<>>, -1, 0, leaf.mtime,
                                BranchMode(leaf.mode))),
                 1, Len(T.nodes) + 1),
     !.block_count = T.block_count + 1]

\* The branch part of the loop body for a directory not yet in the tree.
InsertImplicitBranch(T, leaf, parent, abs_pathname, rel_pathname) ==
  [T EXCEPT
     !.by_name = (abs_pathname :> (Len(T.nodes) + 1)) @@ T.by_name,
     !.nodes = add_child(
                 Append(T.nodes,
                        NewNode(rel_pathname, <<>>, -1, 0, leaf.mtime,
                                BranchMode(leaf.mode))),
                 parent, Len(T.nodes) + 1),
     !.block_count = T.block_count + 1]

\* The while (true) loop of insert_leaf_node, entered with fragment start q
\* and the current parent directory; r is the end of the fragment.
RECURSIVE InsertWalk(_, _, _, _, _)
InsertFragment(T, leaf, p, q, r, parent) ==
  IF At(p, r) = NUL
  THEN InsertExplicitLeaf(T, leaf, parent, SubSeq(p, 1, r - 1), SubSeq(p, q, r - 1))
  ELSE IF SubSeq(p, 1, r - 1) \in DOMAIN T.by_name
  THEN IF ~is_dir(T.nodes[T.by_name[SubSeq(p, 1, r - 1)]])
       THEN T   \* name collision
       ELSE InsertWalk(T, leaf, p, r + 1, T.by_name[SubSeq(p, 1, r - 1)])
  ELSE InsertWalk(
         InsertImplicitBranch(T, leaf, parent, SubSeq(p, 1, r - 1),
                              SubSeq(p, q, r - 1)),
         leaf, p, r + 1, Len(T.nodes) + 1)

\* The loop body adding a block to every directory it visits: what C34's
\* block per new child rules out.
InsertWalkBlockPerVisit(T, leaf, p, q, parent) ==
  InsertFragment(
    [T EXCEPT !.nodes =
       [Touch(T.nodes, parent, leaf.mtime, BranchMode(leaf.mode))
          EXCEPT ![parent].size = @ + block_size]],
    leaf, p, q, ScanComponent(p, q), parent)

InsertWalk(T, leaf, p, q, parent) ==
  InsertFragment(
    [T EXCEPT !.nodes = Touch(T.nodes, parent, leaf.mtime, BranchMode(leaf.mode))],
    leaf, p, q, ScanComponent(p, q), parent)

\* insert_leaf_node: [ret, T].  g_root_node is the first Node allocated.
insert_leaf_node(T, pathname, symlink, index_within_archive, size, mtime, mode) ==
  IF index_within_archive < 0 THEN [ret |-> -EIO, T |-> T]
  ELSE IF At(pathname, 1) = NUL \/ At(pathname, 1) # "/" THEN [ret |-> 0, T |-> T]
  ELSE [ret |-> 0,
        T |-> InsertWalk(T,
                         [symlink |-> symlink,
                          index_within_archive |-> index_within_archive,
                          size |-> size, mtime |-> mtime, mode |-> mode],
                         pathname, 2, 1)]

\* insert_root_node.
insert_root_node ==
  [by_name |-> (<<"/">> :> 1),
   nodes |-> <<NewNode(<<>>, <<>>, -1, 0, 0, S_IFDIR)>>,
   by_index |-> <<>>,
   block_count |-> 1]

\* The tree before insert_root_node: empty containers, g_block_count = 1.
EmptyTree ==
  [by_name |-> <<>>, nodes |-> <<>>, by_index |-> <<>>, block_count |-> 1]

\* ------------------------------------------------- the archive library

\* An archive file is the record
\*   [format_raw, filter_real, innername, entries]
\* entries: what header iteration yields, in order, before it returns
\* end-of-archive.  An entry is the record
\*   [pathname_utf8, pathname, mode, mtime, size_is_set, hsize, data,
\*    symlink, status, derr, errmsg, over]
\* hsize: the size the header records (when size_is_set); data: the
\* entry's decompressed content, as data reads return it; status: what the header read
\* returns for it, "OK", "WARN" or "FATAL" (the archive is damaged there
\* and yields nothing further); derr: reading its data fails, with the
\* library's error string errmsg; over: reading its data returns a count
\* greater than the length asked for (a corrupted library or stream).
\*
\* A libarchive stream is the record [cur, dpos]: the ordinal of the entry
\* of the last header returned (-1 before the first) and the number of
\* bytes of its data already returned.

FreshStream == [cur |-> -1, dpos |-> 0]

\* archive_read_next_header.
lib_next_header(ar, st) ==
  IF st.cur + 1 >= Len(ar.entries)
  THEN [status |-> "EOF", st |-> st]
  ELSE IF ar.entries[st.cur + 2].status = "FATAL"
  THEN [status |-> "FATAL", st |-> st]
  ELSE [status |-> ar.entries[st.cur + 2].status,
        st |-> [cur |-> st.cur + 1, dpos |-> 0]]

\* The entry a stream is positioned on.
lib_entry(ar, st) == ar.entries[st.cur + 1]

\* archive_read_data(a, dst, len): n < 0 on error, else the n bytes read.
lib_read_data(ar, st, len) ==
  LET e == lib_entry(ar, st)
      n == Min(len, Len(e.data) - st.dpos)
  IN IF e.derr
     THEN [n |-> -1, bytes |-> <<>>, st |-> st]
     ELSE IF e.over
     THEN [n |-> len + 1,
           bytes |-> SubSeq(e.data, st.dpos + 1, st.dpos + n),
           st |-> [st EXCEPT !.dpos = st.dpos + n]]
     ELSE [n |-> n,
           bytes |-> SubSeq(e.data, st.dpos + 1, st.dpos + n),
           st |-> [st EXCEPT !.dpos = st.dpos + n]]

\* archive_entry_size: the size the header records, 0 when it records none.
archive_entry_size(e) == IF e.size_is_set THEN e.hsize ELSE 0

\* memcpy of bytes to the start of a buffer.
Overwrite(buf, bytes) ==
  bytes \o SubSeq(buf, Len(bytes) + 1, Len(buf))

\* ------------------------------------------------- exit-code mapping

\* A library error message is a sequence of words; the prefixes are those
\* of determine_passphrase_exit_code.
starts_with(e, prefix) ==
  Len(e) >= Len(prefix) /\ SubSeq(e, 1, Len(prefix)) = prefix

not_supported_prefixes ==
  << <<"Crypto", "codec", "not", "supported">>,
     <<"Decryption", "is", "unsupported">>,
     <<"Encrypted", "file", "is", "unsupported">>,
     <<"Encryption", "is", "not", "supported">>,
     <<"RAR", "encryption", "support", "unavailable">>,
     <<"The", "archive", "header", "is", "encrypted,", "but", "currently",
       "not", "supported">>,
     <<"The", "file", "content", "is", "encrypted,", "but", "currently",
       "not", "supported">>,
     <<"Unsupported", "encryption", "format">> >>

\* determine_passphrase_exit_code without its test for "Passphrase
\* required": what C12 rules out.
determine_passphrase_exit_code_no_required(e) ==
  IF starts_with(e, <<"Incorrect", "passphrase">>)
  THEN EXIT_CODE_PASSPHRASE_INCORRECT
  ELSE IF \E i \in 1..Len(not_supported_prefixes) :
            starts_with(e, not_supported_prefixes[i])
  THEN EXIT_CODE_PASSPHRASE_NOT_SUPPORTED
  ELSE EXIT_CODE_INVALID_ARCHIVE_CONTENTS

determine_passphrase_exit_code(e) ==
  IF starts_with(e, <<"Incorrect", "passphrase">>)
  THEN EXIT_CODE_PASSPHRASE_INCORRECT
  ELSE IF starts_with(e, <<"Passphrase", "required">>)
  THEN EXIT_CODE_PASSPHRASE_REQUIRED
  ELSE IF \E i \in 1..Len(not_supported_prefixes) :
            starts_with(e, not_supported_prefixes[i])
  THEN EXIT_CODE_PASSPHRASE_NOT_SUPPORTED
  ELSE EXIT_CODE_INVALID_ARCHIVE_CONTENTS

\* TRY_EXIT_CODE letting a negative status pass: what C9 rules out.
TRY_EXIT_CODE_lenient(status) ==
  IF status < 0 THEN 0 ELSE status

\* TRY_EXIT_CODE: the exit code main returns for a status, 0 to go on.
TRY_EXIT_CODE(status) ==
  IF status < 0 THEN EXIT_CODE_GENERIC_FAILURE ELSE status

\* abort(): the process is killed and no function returns.  The model
\* hands this value, lower than any errno, up the returns the kill cuts
\* short, to the action, which ends the process.
ABORTED == -(2 ^ 10)

\* ------------------------------------------------------------ bootstrap

\* The size-measuring loop of insert_leaf: [ret, size, st, buf].  got is
\* what archive_read_data returned for the iteration at hand.
RECURSIVE DrainEntry(_, _, _, _)
DrainStep(ar, got, size, buf) ==
  IF got.n = 0 THEN [ret |-> 0, size |-> size, st |-> got.st, buf |-> buf]
  ELSE IF got.n < 0 THEN [ret |-> -EIO, size |-> size, st |-> got.st, buf |-> buf]
  ELSE IF got.n > SIDE_BUFFER_SIZE
  THEN [ret |-> ABORTED, size |-> size, st |-> got.st, buf |-> buf]
  ELSE DrainEntry(ar, got.st, size + got.n, Overwrite(buf, got.bytes))

DrainEntry(ar, st, size, buf) ==
  DrainStep(ar, lib_read_data(ar, st, SIDE_BUFFER_SIZE), size, buf)

\* insert_leaf's return of what insert_leaf_node returned (i).
InsertReturned(i, d) ==
  [ret |-> i.ret, T |-> i.T, st |-> d.st, buf |-> d.buf]

\* The end of insert_leaf: d is the measured [ret, size, st, buf].
InsertMeasured(T, e, pathname, symlink, index_within_archive, d) ==
  IF d.ret # 0
  THEN [ret |-> d.ret, T |-> T, st |-> d.st, buf |-> d.buf]
  ELSE InsertReturned(
         insert_leaf_node(T, pathname, symlink, index_within_archive,
                          d.size, e.mtime, e.mode),
         d)

\* insert_leaf after normalize_pathname.
InsertNormalized(ar, st, T, buf, e, pathname, index_within_archive) ==
  IF pathname = <<>> THEN [ret |-> 0, T |-> T, st |-> st, buf |-> buf]
  ELSE IF S_ISBLK(e.mode) \/ S_ISCHR(e.mode) \/ S_ISFIFO(e.mode) \/ S_ISSOCK(e.mode)
  THEN [ret |-> 0, T |-> T, st |-> st, buf |-> buf]
  ELSE IF S_ISLNK(e.mode) /\ e.symlink = <<>>
  THEN [ret |-> 0, T |-> T, st |-> st, buf |-> buf]
  ELSE InsertMeasured(
         T, e, pathname, IF S_ISLNK(e.mode) THEN e.symlink ELSE <<>>,
         index_within_archive,
         IF ~e.size_is_set
         THEN DrainEntry(ar, st, archive_entry_size(e), buf)
         ELSE [ret |-> 0, size |-> archive_entry_size(e), st |-> st, buf |-> buf])

\* insert_leaf(a, e, index_within_archive): [ret, T, st, buf], buf being
\* g_side_buffer_data[SIDE_BUFFER_INDEX_DECOMPRESSED].
insert_leaf(ar, st, T, buf, is_raw, index_within_archive) ==
  InsertNormalized(ar, st, T, buf, lib_entry(ar, st),
                   normalize_pathname(lib_entry(ar, st), is_raw, ar.innername),
                   index_within_archive)

\* The while (true) loop of build_tree: [ret, T, st, buf, index].
RECURSIVE BuildLoop(_, _, _, _, _, _, _)
\* After insert_leaf returned l.
BuildInserted(ar, l, is_raw, index) ==
  IF l.ret # 0
  THEN [ret |-> l.ret, T |-> l.T, st |-> l.st, buf |-> l.buf, index |-> index]
  ELSE BuildLoop(ar, l.st, l.T, l.buf, is_raw, index, FALSE)

\* The loop body leaving directory entries out of the count: what C26's
\* index of a leaf rules out.
BuildEntryDirectoriesUncounted(ar, st, T, buf, is_raw, index) ==
  IF S_ISDIR(lib_entry(ar, st).mode)
  THEN BuildLoop(ar, st, T, buf, is_raw, index - 1, FALSE)
  ELSE BuildInserted(ar, insert_leaf(ar, st, T, buf, is_raw, index), is_raw, index)

\* The loop body once the entry is at hand (st is positioned on it).
BuildEntry(ar, st, T, buf, is_raw, index) ==
  IF S_ISDIR(lib_entry(ar, st).mode)
  THEN BuildLoop(ar, st, T, buf, is_raw, index, FALSE)
  ELSE BuildInserted(ar, insert_leaf(ar, st, T, buf, is_raw, index), is_raw, index)

\* The loop body after archive_read_next_header returned h.
BuildHeader(ar, h, T, buf, is_raw, index) ==
  IF h.status = "EOF"
  THEN [ret |-> 0, T |-> T, st |-> h.st, buf |-> buf, index |-> index]
  ELSE IF h.status \notin {"WARN", "OK"}
  THEN [ret |-> -EIO, T |-> T, st |-> h.st, buf |-> buf, index |-> index]
  ELSE BuildEntry(ar, h.st, T, buf, is_raw, index)

BuildLoop(ar, st, T, buf, is_raw, index, first) ==
  IF first
  THEN BuildEntry(ar, st, T, buf, is_raw, index)
  ELSE BuildHeader(ar, lib_next_header(ar, st), T, buf, is_raw, index + 1)

build_tree(ar, st, T, buf, is_raw, index) ==
  IF index < 0
  THEN [ret |-> -EIO, T |-> T, st |-> st, buf |-> buf, index |-> index]
  ELSE BuildLoop(ar, st, T, buf, is_raw, index, TRUE)

\* The header loop of pre_initialize: [status, st, index], status being
\* "OK" when a non-directory entry was reached.
RECURSIVE ProbeLoop(_, _, _)
ProbeHeader(ar, h, index) ==
  IF h.status \notin {"WARN", "OK"}
  THEN [status |-> h.status, st |-> h.st, index |-> index]
  ELSE IF S_ISDIR(lib_entry(ar, h.st).mode)
  THEN ProbeLoop(ar, h.st, index)
  ELSE [status |-> "OK", st |-> h.st, index |-> index]

ProbeLoop(ar, st, index) == ProbeHeader(ar, lib_next_header(ar, st), index + 1)

\* ---------------------------------------------------------------- state

\* ------------------------------------------------------------- password

\* std::getline(std::cin, line) on the input in: the characters up to the
\* first newline, which is taken off the input and not stored; ok is
\* FALSE when nothing could be extracted (end of input).
getline(in) ==
  IF in = <<>>
  THEN [ok |-> FALSE, line |-> <<>>, rest |-> <<>>]
  ELSE IF \E k \in 1..Len(in) : in[k] = "\n"
  THEN LET k == CHOOSE k \in 1..Len(in) :
                  in[k] = "\n" /\ \A j \in 1..(k - 1) : in[j] # "\n"
       IN [ok |-> TRUE, line |-> SubSeq(in, 1, k - 1),
           rest |-> SubSeq(in, k + 1, Len(in))]
  ELSE [ok |-> TRUE, line |-> in, rest |-> <<>>]

\* while (password.ends_with('\n')) password.pop_back();
RECURSIVE pop_newlines(_)
pop_newlines(s) ==
  IF s # <<>> /\ s[Len(s)] = "\n"
  THEN pop_newlines(SubSeq(s, 1, Len(s) - 1))
  ELSE s

\* read_password_from_stdin asked again on every request: what C13 rules
\* out.
read_password_from_stdin_every_time(count, pwd, in, out, tty) ==
  LET got == getline(in)
      line == pop_newlines(IF got.ok THEN got.line ELSE <<>>)
  IN [password_count |-> count + 1,
      password |-> line,
      cin |-> got.rest,
      cout |-> IF tty THEN out \o <<"Password > ", "Got it!">> ELSE out,
      ret |-> IF line = <<>> THEN NullStr ELSE line]

\* read_password_from_stdin with password_count = count, password = pwd,
\* standard input in and standard output out; tty is whether SuppressEcho
\* could switch the echo of the terminal off.
read_password_from_stdin(count, pwd, in, out, tty) ==
  IF count # 0
  THEN [password_count |-> count + 1, password |-> pwd, cin |-> in,
        cout |-> out, ret |-> NullStr]
  ELSE LET got == getline(in)
           line == pop_newlines(IF got.ok THEN got.line ELSE <<>>)
       IN [password_count |-> count + 1,
           password |-> line,
           cin |-> got.rest,
           cout |-> IF tty THEN out \o <<"Password > ", "Got it!">> ELSE out,
           ret |-> IF line = <<>> THEN NullStr ELSE line]

VARIABLES
  archive_file,      \* the archive named on the command line
  pc,                \* where main is: "main", "probed", "mounted",
                     \* "serving" (inside fuse_main), "exited", "aborted"
  exit_code,         \* main's return value once pc = "exited"
  phase_ret,         \* [A, B]: <<ret>> once pre_initialize (A) and
                     \* post_initialize_sync (B) returned ret, <<>> before
  mount_point,       \* "none", "created" (by mkdirat, owned by Cleanup),
                     \* "exists" (EEXIST), "failed", "removed"
  g_archive_fd,      \* "closed" (-1) or "open"
  g_initialize_archive,               \* [live, cur, dpos]
  g_initialize_index_within_archive,
  g_archive_is_raw,
  g_nodes_by_name, nodes, g_nodes_by_index, g_block_count, g_root_node,
  g_side_buffer_data, g_side_buffer_metadata,
  sb_next_lru_priority,               \* side_buffer_metadata::next_lru_priority
  g_saved_readers,
  next_lru_priority,                  \* release_reader's static counter
  streams,           \* the live serving-time libarchive streams, by pointer
  handles,           \* the Reader each open FUSE file handle (ffi->fh) points to
  opened,            \* per handle, the entry index my_open was asked for
  last,              \* the last request and its reply
  nreq,              \* open, read and release requests so far
  rd,                \* the my_read call in progress, if any
  password,          \* the decryption password
  password_count,    \* how many times the password has been requested
  cin,               \* what standard input still holds
  cout               \* what has been written to standard output

tree_vars == <<g_nodes_by_name, nodes, g_nodes_by_index, g_block_count, g_root_node>>
boot_vars == <<g_archive_fd, g_initialize_archive,
               g_initialize_index_within_archive, g_archive_is_raw>>
side_vars == <<g_side_buffer_data, g_side_buffer_metadata, sb_next_lru_priority>>
reader_vars == <<g_saved_readers, next_lru_priority, streams, handles, opened>>
main_vars == <<pc, exit_code, phase_ret, mount_point>>
pass_vars == <<password, password_count, cin, cout>>
vars == <<archive_file, main_vars, boot_vars, tree_vars, side_vars,
          reader_vars, last, nreq, rd, pass_vars>>

Tree == [by_name |-> g_nodes_by_name, nodes |-> nodes,
         by_index |-> g_nodes_by_index, block_count |-> g_block_count]

SetTree(T) ==
  /\ g_nodes_by_name' = T.by_name
  /\ nodes' = T.nodes
  /\ g_nodes_by_index' = T.by_index
  /\ g_block_count' = T.block_count

NullArchive == [live |-> FALSE, cur |-> -1, dpos |-> 0]
NullReader == [archive |-> 0, archive_entry |-> FALSE,
               index_within_archive |-> -1, offset_within_entry |-> 0]
EmptyMeta == [index_within_archive |-> -1, offset_within_entry |-> -1,
              length |-> -1, lru_priority |-> 0]

SideBuffers == 0..(NUM_SIDE_BUFFERS - 1)
SavedReaders == 0..(NUM_SAVED_READERS - 1)

\* A byte of the compressed archive file, as opposed to decompressed data.
COMPRESSED == -1

NoRequest == [op |-> "none"]

\* No my_read call is in progress.
Idle == [pc |-> "idle"]

\* A pointer of the stream heap that holds no stream.
FreeStream == [cur |-> -2, dpos |-> 0]

\* Streams that can be live at once: one per handle and cache slot, one
\* being acquired, and one to spare.
MaxStreams == MaxHandles + NUM_SAVED_READERS + 2

\* The state main starts from: static initializers, then the side-buffer
\* metadata loop at the top of main.
InitState(archives, inputs) ==
  /\ archive_file \in archives
  /\ cin \in inputs
  /\ cout = <<>>
  /\ password = <<>>
  /\ password_count = 0
  /\ pc = "main"
  /\ exit_code = -1
  /\ phase_ret = [A |-> <<>>, B |-> <<>>]
  /\ mount_point = "none"
  /\ g_archive_fd = "closed"
  /\ g_initialize_archive = NullArchive
  /\ g_initialize_index_within_archive = -1
  /\ g_archive_is_raw = FALSE
  /\ g_nodes_by_name = EmptyTree.by_name
  /\ nodes = EmptyTree.nodes
  /\ g_nodes_by_index = EmptyTree.by_index
  /\ g_block_count = EmptyTree.block_count
  /\ g_root_node = 0
  /\ g_side_buffer_data = [i \in SideBuffers |-> [j \in 1..SIDE_BUFFER_SIZE |-> 0]]
  /\ g_side_buffer_metadata = [i \in SideBuffers |-> EmptyMeta]
  /\ sb_next_lru_priority = 0
  /\ g_saved_readers = [i \in SavedReaders |-> [first |-> NullReader, second |-> 0]]
  /\ next_lru_priority = 0
  /\ streams = [id \in 1..MaxStreams |-> FreeStream]
  /\ handles = [h \in 1..MaxHandles |-> NullReader]
  /\ opened = [h \in 1..MaxHandles |-> -1]
  /\ last = NoRequest
  /\ nreq = 0
  /\ rd = Idle

\* main starts with nothing on standard input.
InitWith(archives) == InitState(archives, {<<>>})

\* ----------------------------------------------------------------- main

\* main returns: the Cleanup destructor removes a mount point it created.
Exit(code) ==
  /\ pc' = "exited"
  /\ exit_code' = code
  /\ mount_point' = IF mount_point = "created" THEN "removed" ELSE mount_point

\* main before pre_initialize: locale, argument parsing, --help, --version.
\* outcome: "locale" (ensure_utf_8_encoding fails), "argv", "parse",
\* "help", "version".
MainEarlyExit(outcome) ==
  /\ pc = "main"
  /\ Exit(IF outcome \in {"help", "version"} THEN EXIT_SUCCESS
          ELSE EXIT_CODE_GENERIC_FAILURE)
  /\ UNCHANGED <<archive_file, pass_vars, phase_ret, boot_vars, tree_vars, side_vars,
                 reader_vars, last, nreq, rd>>

\* What pre_initialize returns when the operating system or the library's
\* open fails before any header is read; env names the failing call.
PreInitEnvCode(env) ==
  CASE env = "noarg" -> EXIT_CODE_GENERIC_FAILURE
    [] env = "realpath" -> EXIT_CODE_CANNOT_OPEN_ARCHIVE
    [] env = "open" -> EXIT_CODE_CANNOT_OPEN_ARCHIVE
    [] env = "fstat" -> EXIT_CODE_GENERIC_FAILURE
    [] env = "oom" -> EXIT_CODE_GENERIC_FAILURE
    [] env = "read_open" -> EXIT_CODE_GENERIC_FAILURE

\* pre_initialize's returns after archive_read_free: the globals reset.
PreInitFreed(ret, raw, root, buf1) ==
  [ret |-> ret, st |-> NullArchive, index |-> -1, is_raw |-> raw,
   root |-> root, buf1 |-> buf1]

\* The one-byte read of the first non-directory entry, got being what
\* archive_read_data returned.
PreInitProbed(ar, pr, got, buf1) ==
  IF got.n < 0
  THEN PreInitFreed(determine_passphrase_exit_code(lib_entry(ar, pr.st).errmsg),
                    FALSE, FALSE, buf1)
  ELSE [ret |-> 0,
        st |-> [live |-> TRUE, cur |-> got.st.cur, dpos |-> got.st.dpos],
        index |-> pr.index, is_raw |-> FALSE, root |-> FALSE,
        buf1 |-> Overwrite(buf1, got.bytes)]

\* pre_initialize taking the end of the archive for an invalid header:
\* what C10 rules out.
PreInitAfterLoopStrict(ar, pr, buf1) ==
  IF pr.status # "OK"
  THEN PreInitFreed(EXIT_CODE_INVALID_ARCHIVE_HEADER, FALSE, FALSE, buf1)
  ELSE IF ar.format_raw
  THEN IF ~ar.filter_real
       THEN PreInitFreed(EXIT_CODE_INVALID_RAW_ARCHIVE, TRUE, FALSE, buf1)
       ELSE [ret |-> 0,
             st |-> [live |-> TRUE, cur |-> pr.st.cur, dpos |-> pr.st.dpos],
             index |-> pr.index, is_raw |-> TRUE, root |-> FALSE, buf1 |-> buf1]
  ELSE PreInitProbed(ar, pr, lib_read_data(ar, pr.st, 1), buf1)

\* pre_initialize after its header loop returned pr.
PreInitAfterLoop(ar, pr, buf1) ==
  IF pr.status # "OK"
  THEN IF pr.status # "EOF"
       THEN PreInitFreed(EXIT_CODE_INVALID_ARCHIVE_HEADER, FALSE, FALSE, buf1)
       ELSE PreInitFreed(0, FALSE, TRUE, buf1)
  ELSE IF ar.format_raw
  THEN IF ~ar.filter_real
       THEN PreInitFreed(EXIT_CODE_INVALID_RAW_ARCHIVE, TRUE, FALSE, buf1)
       ELSE [ret |-> 0,
             st |-> [live |-> TRUE, cur |-> pr.st.cur, dpos |-> pr.st.dpos],
             index |-> pr.index, is_raw |-> TRUE, root |-> FALSE, buf1 |-> buf1]
  ELSE PreInitProbed(ar, pr, lib_read_data(ar, pr.st, 1), buf1)

\* pre_initialize with every call before the header loop succeeding:
\* [ret, st (NullArchive once freed), index, is_raw, root, buf1].
pre_initialize(ar, buf1) ==
  PreInitAfterLoop(ar, ProbeLoop(ar, FreshStream, -1), buf1)

PreInitEnvs == {"ok", "noarg", "realpath", "open", "fstat", "oom", "read_open"}

\* main after pre_initialize returned ret (p holds the globals it set).
MainAfterPreInit(env, p, ret) ==
  /\ phase_ret' = [phase_ret EXCEPT !.A = <<ret>>]
  /\ g_archive_fd' = IF env \in {"noarg", "realpath", "open"}
                     THEN "closed" ELSE "open"
  /\ IF env = "ok"
     THEN /\ g_initialize_archive' = p.st
          /\ g_initialize_index_within_archive' = p.index
          /\ g_archive_is_raw' = p.is_raw
          /\ IF p.root
             THEN SetTree(insert_root_node) /\ g_root_node' = 1
             ELSE UNCHANGED tree_vars
          /\ g_side_buffer_data' =
               [g_side_buffer_data EXCEPT
                  ![SIDE_BUFFER_INDEX_COMPRESSED] =
                     [j \in 1..SIDE_BUFFER_SIZE |-> COMPRESSED],
                  ![SIDE_BUFFER_INDEX_DECOMPRESSED] = p.buf1]
     ELSE UNCHANGED <<g_initialize_archive,
                     g_initialize_index_within_archive,
                     g_archive_is_raw, tree_vars, g_side_buffer_data>>
  /\ IF TRY_EXIT_CODE(ret) # 0
     THEN Exit(TRY_EXIT_CODE(ret))
     ELSE /\ pc' = "probed"
          /\ UNCHANGED <<exit_code, mount_point>>

MainPreInitReturned(env, p) ==
  MainAfterPreInit(env, p, IF env = "ok" THEN p.ret ELSE PreInitEnvCode(env))

\* TRY_EXIT_CODE(pre_initialize()).
MainPreInitialize(env) ==
  /\ pc = "main"
  /\ MainPreInitReturned(
       env,
       pre_initialize(archive_file,
                      g_side_buffer_data[SIDE_BUFFER_INDEX_DECOMPRESSED]))
  /\ UNCHANGED <<archive_file, pass_vars, g_side_buffer_metadata, sb_next_lru_priority,
                 reader_vars, last, nreq, rd>>

\* The mount point creation between the two phases.  given: a mount point
\* was named on the command line; res: how mkdirat ends ("ok", "EEXIST",
\* "error"); without a named mount point EEXIST only leads to the next
\* candidate name, so the loop ends "ok" or "error".
MainMkdir(given, res) ==
  /\ pc = "probed"
  /\ given \/ res # "EEXIST"
  /\ IF ~given /\ res = "error"
     THEN Exit(EXIT_FAILURE)
     ELSE /\ pc' = "mounted"
          /\ mount_point' = CASE res = "ok" -> "created"
                              [] res = "EEXIST" -> "exists"
                              [] res = "error" -> "failed"
          /\ UNCHANGED exit_code
  /\ UNCHANGED <<archive_file, pass_vars, phase_ret, boot_vars, tree_vars, side_vars,
                 reader_vars, last, nreq, rd>>

\* post_initialize_sync after build_tree returned b.
PostInitBuilt(b) ==
  [ret |-> b.ret, T |-> b.T, root |-> 1, st |-> NullArchive,
   index |-> -1, fd |-> "closed", buf1 |-> b.buf]

\* post_initialize_sync: [ret, T, root, st, index, fd, buf1].
post_initialize_sync(ar, st, T, root, index, fd, is_raw, buf1) ==
  IF root # 0
  THEN [ret |-> 0, T |-> T, root |-> root, st |-> st, index |-> index,
        fd |-> fd, buf1 |-> buf1]
  ELSE PostInitBuilt(build_tree(ar, [cur |-> st.cur, dpos |-> st.dpos],
                                insert_root_node, buf1, is_raw, index))

\* main after post_initialize_sync returned p: exit, or fuse_main, which
\* cannot mount (and returns failure) on a mount point that does not exist.
MainAfterPostInit(p) ==
  /\ phase_ret' = IF p.ret = ABORTED THEN phase_ret
                  ELSE [phase_ret EXCEPT !.B = <<p.ret>>]
  /\ SetTree(p.T)
  /\ g_root_node' = p.root
  /\ g_initialize_archive' = p.st
  /\ g_initialize_index_within_archive' = p.index
  /\ g_archive_fd' = p.fd
  /\ g_side_buffer_data' =
       [g_side_buffer_data EXCEPT ![SIDE_BUFFER_INDEX_DECOMPRESSED] = p.buf1]
  /\ IF p.ret = ABORTED
     THEN /\ pc' = "aborted"
          /\ UNCHANGED <<exit_code, mount_point>>
     ELSE IF TRY_EXIT_CODE(p.ret) # 0
     THEN Exit(TRY_EXIT_CODE(p.ret))
     ELSE IF mount_point = "failed"
     THEN Exit(EXIT_FAILURE)
     ELSE /\ pc' = "serving"
          /\ UNCHANGED <<exit_code, mount_point>>

\* TRY_EXIT_CODE(post_initialize_sync()), then fuse_main.
MainPostInitialize ==
  /\ pc = "mounted"
  /\ MainAfterPostInit(
       post_initialize_sync(
         archive_file, g_initialize_archive, Tree, g_root_node,
         g_initialize_index_within_archive, g_archive_fd, g_archive_is_raw,
         g_side_buffer_data[SIDE_BUFFER_INDEX_DECOMPRESSED]))
  /\ UNCHANGED <<archive_file, pass_vars, g_archive_is_raw, g_side_buffer_metadata,
                 sb_next_lru_priority, reader_vars, last, nreq, rd>>

\* -------------------------------------------- requests on the tree only

\* Node::get_stat (uid and gid left out).
get_stat(node) ==
  [st_mode |-> node.mode, st_nlink |-> 1, st_size |-> node.size,
   st_mtime |-> node.mtime, st_blksize |-> block_size,
   st_blocks |-> get_block_count(node)]

\* The nodes reached from p by next_sibling, p included (0 ends the chain).
\* A chain that does not end within Len(heap) steps is cut there.
RECURSIVE SiblingChain(_, _, _)
SiblingChain(heap, p, fuel) ==
  IF p = 0 \/ fuel = 0 THEN <<>>
  ELSE <<p>> \o SiblingChain(heap, heap[p].next_sibling, fuel - 1)

Children(heap, dir) == SiblingChain(heap, heap[dir].first_child, Len(heap))

my_getattr(pathname) ==
  IF pathname \notin DOMAIN g_nodes_by_name
  THEN [ret |-> -ENOENT, out |-> <<>>]
  ELSE [ret |-> 0, out |-> get_stat(nodes[g_nodes_by_name[pathname]])]

\* snprintf(dst, dst_len, "%s", s): at most dst_len - 1 characters.
my_readlink(pathname, dst_len) ==
  IF pathname \notin DOMAIN g_nodes_by_name
  THEN [ret |-> -ENOENT, out |-> <<>>]
  ELSE LET n == nodes[g_nodes_by_name[pathname]]
       IN IF n.symlink = <<>> \/ dst_len = 0
          THEN [ret |-> -ENOLINK, out |-> <<>>]
          ELSE [ret |-> 0,
                out |-> SubSeq(n.symlink, 1, Min(Len(n.symlink), dst_len - 1))]

\* The filler calls of my_readdir over the names still to emit; room is
\* the number of calls the filler accepts before its buffer is full.
RECURSIVE Fill(_, _, _)
Fill(names, room, emitted) ==
  IF names = <<>> THEN [ret |-> 0, out |-> emitted]
  ELSE IF room = 0 THEN [ret |-> -ENOMEM, out |-> emitted]
  ELSE Fill(Tail(names), room - 1, Append(emitted, Head(names)))

my_readdir(pathname, room) ==
  IF pathname \notin DOMAIN g_nodes_by_name
  THEN [ret |-> -ENOENT, out |-> <<>>]
  ELSE LET n == g_nodes_by_name[pathname]
           kids == Children(nodes, n)
       IN IF ~S_ISDIR(nodes[n].mode)
          THEN [ret |-> -ENOTDIR, out |-> <<>>]
          ELSE Fill(<< <<".">>, <<".", ".">> >>
                      \o [i \in 1..Len(kids) |-> nodes[kids[i]].rel_name],
                    room, <<>>)

my_statfs ==
  [ret |-> 0,
   out |-> [f_bsize |-> block_size, f_frsize |-> block_size,
            f_blocks |-> g_block_count, f_bfree |-> 0, f_bavail |-> 0,
            f_files |-> Cardinality(DOMAIN g_nodes_by_name),
            f_ffree |-> 0, f_favail |-> 0]]

\* Pathnames the kernel may ask for besides those of the tree.
ProbePaths ==
  { <<"/", "e">>, <<"/", ".", ".", "/", "e">> }

RequestPaths == DOMAIN g_nodes_by_name \cup ProbePaths

\* For file requests: the paths of the tree and one that is absent.
OpenPaths == DOMAIN g_nodes_by_name \cup { <<"/", "e">> }

\* A tree request that also stamps the node it looked up (an access time
\* kept in mtime): what C5 rules out.
ReplyTouching(op, path, arg, r) ==
  /\ pc = "serving"
  /\ rd.pc = "idle"
  /\ last' = [op |-> op, path |-> path, arg |-> arg, ret |-> r.ret, out |-> r.out]
  /\ nodes' = [nodes EXCEPT ![1].mtime = @ + 1]
  /\ UNCHANGED <<archive_file, pass_vars, main_vars, boot_vars, g_nodes_by_name,
                 g_nodes_by_index, g_block_count, g_root_node, side_vars,
                 reader_vars, rd>>

\* A request that only looks the tree up: nothing but the reply (and the
\* count of requests, where requests are counted) changes.
Reply(op, path, arg, r) ==
  /\ pc = "serving"
  /\ rd.pc = "idle"
  /\ last' = [op |-> op, path |-> path, arg |-> arg, ret |-> r.ret, out |-> r.out]
  /\ UNCHANGED <<archive_file, pass_vars, main_vars, boot_vars, tree_vars, side_vars,
                 reader_vars, rd>>

Getattr(path) == Reply("getattr", path, 0, my_getattr(path))

Readlink(path, dst_len) == Reply("readlink", path, dst_len, my_readlink(path, dst_len))

Readdir(path, room) == Reply("readdir", path, room, my_readdir(path, room))

Statfs(path) == Reply("statfs", path, 0, my_statfs)

\* Filler buffers: room for MaxFill entries, or for all (Unlimited).
Unlimited == MaxFill + 100
Rooms == 0..MaxFill \cup {Unlimited}
DstLens == {0, 2, 8}

\* Tree requests without number, over every input.
TreeRequest ==
  /\ UNCHANGED nreq
  /\ \/ \E path \in RequestPaths : Getattr(path)
     \/ \E path \in RequestPaths, dst_len \in DstLens : Readlink(path, dst_len)
     \/ \E path \in RequestPaths, room \in Rooms : Readdir(path, room)
     \/ \E path \in {<<"/">>} : Statfs(path)

\* The library asks for the passphrase, which it can while the stream of
\* bootstrap is open (archive_read_set_passphrase_callback).
PassphraseRequest(tty) ==
  /\ g_initialize_archive.live
  /\ password_count < MaxRequests
  /\ LET r == read_password_from_stdin(password_count, password, cin, cout, tty)
     IN /\ password_count' = r.password_count
        /\ password' = r.password
        /\ cin' = r.cin
        /\ cout' = r.cout
        /\ last' = [op |-> "password", path |-> <<>>, arg |-> tty,
                    ret |-> 0, out |-> r.ret]
  /\ UNCHANGED <<archive_file, main_vars, boot_vars, tree_vars, side_vars,
                 reader_vars, nreq, rd>>

Bootstrap ==
  \/ \E outcome \in {"locale", "argv", "parse", "help", "version"} :
        MainEarlyExit(outcome)
  \/ \E env \in PreInitEnvs : MainPreInitialize(env)
  \/ \E given \in BOOLEAN, res \in {"ok", "EEXIST", "error"} : MainMkdir(given, res)
  \/ MainPostInitialize

\* ---------------------------------------------------------- side buffers

\* UINT64_MAX and ++ of a uint64_t, for counters LruBits wide.
UINT64_MAX == 2 ^ LruBits - 1

Incr(c) == (c + 1) % (UINT64_MAX + 1)

\* contains without the comparison of entry indexes: a side buffer would
\* serve reads of other entries, which C2 rules out.
contains_any_entry(meta, index_within_archive, offset_within_entry, length) ==
  IF /\ meta.index_within_archive >= 0
     /\ meta.offset_within_entry <= offset_within_entry
  THEN /\ meta.length >= offset_within_entry - meta.offset_within_entry
       /\ meta.length - (offset_within_entry - meta.offset_within_entry) >= length
  ELSE FALSE

\* side_buffer_metadata::contains.
contains(meta, index_within_archive, offset_within_entry, length) ==
  IF /\ meta.index_within_archive >= 0
     /\ meta.index_within_archive = index_within_archive
     /\ meta.offset_within_entry <= offset_within_entry
  THEN /\ meta.length >= offset_within_entry - meta.offset_within_entry
       /\ meta.length - (offset_within_entry - meta.offset_within_entry) >= length
  ELSE FALSE

\* The loop of acquire_side_buffer keeping the highest priority: what
\* C24's eviction of the least recently used rules out.
RECURSIVE NewestSideBuffer(_, _, _)
NewestSideBuffer(meta, i, oldest_i) ==
  IF i >= NUM_SIDE_BUFFERS THEN oldest_i
  ELSE NewestSideBuffer(
         meta, i + 1,
         IF meta[oldest_i].lru_priority < meta[i].lru_priority
         THEN i ELSE oldest_i)

\* The loop of acquire_side_buffer from i on.
RECURSIVE OldestSideBuffer(_, _, _)
OldestSideBuffer(meta, i, oldest_i) ==
  IF i >= NUM_SIDE_BUFFERS THEN oldest_i
  ELSE OldestSideBuffer(
         meta, i + 1,
         IF meta[oldest_i].lru_priority > meta[i].lru_priority
         THEN i ELSE oldest_i)

\* acquire_side_buffer: [sb, meta].
acquire_side_buffer(meta) ==
  [sb |-> OldestSideBuffer(meta, 1, 0),
   meta |-> [meta EXCEPT ![OldestSideBuffer(meta, 1, 0)] =
                [index_within_archive |-> -1, offset_within_entry |-> -1,
                 length |-> -1, lru_priority |-> UINT64_MAX]]]

\* The loop of read_from_side_buffer keeping the first buffer that
\* contains the range: what C23's choice of the longest rules out.
RECURSIVE FirstSideBuffer(_, _, _, _, _, _)
FirstSideBuffer(meta, index_within_archive, dst_len, offset_within_entry, i, best_i) ==
  IF i >= NUM_SIDE_BUFFERS THEN best_i
  ELSE FirstSideBuffer(
         meta, index_within_archive, dst_len, offset_within_entry, i + 1,
         IF /\ best_i < 0
            /\ contains(meta[i], index_within_archive, offset_within_entry, dst_len)
         THEN i ELSE best_i)

\* The loop of read_from_side_buffer from i on (best_length is the length
\* of best_i, -1 while there is none).
RECURSIVE BestSideBuffer(_, _, _, _, _, _)
BestSideBuffer(meta, index_within_archive, dst_len, offset_within_entry, i, best_i) ==
  IF i >= NUM_SIDE_BUFFERS THEN best_i
  ELSE BestSideBuffer(
         meta, index_within_archive, dst_len, offset_within_entry, i + 1,
         IF /\ meta[i].length > (IF best_i < 0 THEN -1 ELSE meta[best_i].length)
            /\ contains(meta[i], index_within_archive, offset_within_entry, dst_len)
         THEN i ELSE best_i)

\* read_from_side_buffer once best_i is found: [hit, bytes, meta, sblru].
\* The copy out of a side buffer taken from the buffer's start whatever the
\* offset asked for: what C1 rules out.
CopyFromSideBufferStart(meta, data, sblru, best_i, dst_len, offset_within_entry) ==
  IF best_i >= 0
  THEN [hit |-> TRUE,
        bytes |-> SubSeq(data[best_i], 1, dst_len),
        meta |-> [meta EXCEPT ![best_i].lru_priority = Incr(sblru)],
        sblru |-> Incr(sblru)]
  ELSE [hit |-> FALSE, bytes |-> <<>>, meta |-> meta, sblru |-> sblru]

CopyFromSideBuffer(meta, data, sblru, best_i, dst_len, offset_within_entry) ==
  IF best_i >= 0
  THEN [hit |-> TRUE,
        bytes |-> SubSeq(data[best_i],
                         offset_within_entry - meta[best_i].offset_within_entry + 1,
                         offset_within_entry - meta[best_i].offset_within_entry
                           + dst_len),
        meta |-> [meta EXCEPT ![best_i].lru_priority = Incr(sblru)],
        sblru |-> Incr(sblru)]
  ELSE [hit |-> FALSE, bytes |-> <<>>, meta |-> meta, sblru |-> sblru]

read_from_side_buffer(meta, data, sblru, index_within_archive, dst_len, offset_within_entry) ==
  CopyFromSideBuffer(
    meta, data, sblru,
    BestSideBuffer(meta, index_within_archive, dst_len, offset_within_entry, 0, -1),
    dst_len, offset_within_entry)

\* ---------------------------------------------------------------- Reader

\* A Reader is the record
\*   [archive, archive_entry, index_within_archive, offset_within_entry]
\* archive being the pointer of its stream (0 for nullptr) and
\* archive_entry whether a header has been read; NullReader also stands for
\* a null Reader pointer.  Reader operations take and return the stream
\* record st of r.archive.

\* Reader::advance_index: [ok, r, st].
RECURSIVE AdvanceIndexLoop(_, _, _, _)
\* The body of the loop of advance_index leaving offset_within_entry as it
\* was: what C17's reset of the offset rules out.
AdvanceIndexHeaderKeepOffset(ar, r, h, want) ==
  IF h.status = "EOF" THEN [ok |-> FALSE, r |-> r, st |-> h.st]
  ELSE IF h.status \notin {"OK", "WARN"} THEN [ok |-> FALSE, r |-> r, st |-> h.st]
  ELSE AdvanceIndexLoop(
         ar,
         [r EXCEPT !.archive_entry = TRUE,
                   !.index_within_archive = r.index_within_archive + 1],
         h.st, want)

AdvanceIndexHeader(ar, r, h, want) ==
  IF h.status = "EOF" THEN [ok |-> FALSE, r |-> r, st |-> h.st]
  ELSE IF h.status \notin {"OK", "WARN"} THEN [ok |-> FALSE, r |-> r, st |-> h.st]
  ELSE AdvanceIndexLoop(
         ar,
         [r EXCEPT !.archive_entry = TRUE,
                   !.index_within_archive = r.index_within_archive + 1,
                   !.offset_within_entry = 0],
         h.st, want)

AdvanceIndexLoop(ar, r, st, want) ==
  IF r.index_within_archive < want
  THEN AdvanceIndexHeader(ar, r, lib_next_header(ar, st), want)
  ELSE [ok |-> TRUE, r |-> r, st |-> st]

advance_index(ar, r, st, want) ==
  IF r.archive = 0 THEN [ok |-> FALSE, r |-> r, st |-> st]
  ELSE AdvanceIndexLoop(ar, r, st, want)

\* Reader::read trusting the count the library returns: what C35's
\* abort rules out.
ReaderReadGotTrusting(r, got, dst_len) ==
  IF got.n < 0
  THEN [n |-> -EIO, bytes |-> <<>>, r |-> r, st |-> got.st]
  ELSE [n |-> got.n, bytes |-> got.bytes,
        r |-> [r EXCEPT !.offset_within_entry = r.offset_within_entry + got.n],
        st |-> got.st]

\* Reader::read after archive_read_data returned got: [n, bytes, r, st],
\* n being ABORTED where the process is killed.
ReaderReadGot(r, got, dst_len) ==
  IF got.n < 0
  THEN [n |-> -EIO, bytes |-> <<>>, r |-> r, st |-> got.st]
  ELSE IF got.n > dst_len
  THEN [n |-> ABORTED, bytes |-> <<>>, r |-> r, st |-> got.st]
  ELSE [n |-> got.n, bytes |-> got.bytes,
        r |-> [r EXCEPT !.offset_within_entry = r.offset_within_entry + got.n],
        st |-> got.st]

\* What a call returned is bound once, as the one element of a set, and
\* the rest of the caller is the one value built from it.
ReaderRead(ar, r, st, dst_len) ==
  (CHOOSE one \in { ReaderReadGot(r, got, dst_len) :
             got \in {lib_read_data(ar, st, dst_len)} } : TRUE)

\* The length of the next chunk were the remainder read last: what C25's
\* full side buffer on return rules out.
ChunkLenRemainderLast(dst_len) ==
  IF dst_len > SIDE_BUFFER_SIZE THEN SIDE_BUFFER_SIZE ELSE dst_len

\* The length of the next chunk advance_offset reads: the remainder first.
ChunkLen(dst_len) ==
  IF dst_len > SIDE_BUFFER_SIZE
  THEN IF dst_len % SIDE_BUFFER_SIZE = 0 THEN SIDE_BUFFER_SIZE
       ELSE dst_len % SIDE_BUFFER_SIZE
  ELSE dst_len

\* ---------------------------------------------------------- reader cache

\* The serving-time globals are handed around as the record
\*   G = [saved, lru, streams, meta, data, sblru]
\* (g_saved_readers, release_reader's next_lru_priority, the stream heap,
\* g_side_buffer_metadata, g_side_buffer_data and
\* side_buffer_metadata::next_lru_priority).

\* The smallest pointer that holds no stream.
FreshId(ss) ==
  CHOOSE id \in 1..MaxStreams :
    ss[id] = FreeStream /\ \A j \in 1..(id - 1) : ss[j] # FreeStream

\* std::pair comparison.
PairLess(a1, a2, b1, b2) == a1 < b1 \/ (a1 = b1 /\ a2 < b2)

\* A comparison that lets every pair pass: what C16's bound on the cached
\* Reader chosen rules out.
PairLessEqAny(a1, a2, b1, b2) == TRUE

PairLessEq(a1, a2, b1, b2) == a1 < b1 \/ (a1 = b1 /\ a2 <= b2)

\* The loop of acquire_reader keeping the first cached Reader that is not
\* past the wanted entry: what C15's choice of the nearest rules out.
RECURSIVE BestSavedReaderFirst(_, _, _, _)
BestSavedReaderFirst(saved, want, i, best_i) ==
  IF i >= NUM_SAVED_READERS THEN best_i
  ELSE BestSavedReaderFirst(
         saved, want, i + 1,
         IF /\ saved[i].first # NullReader
            /\ best_i < 0
            /\ PairLessEq(saved[i].first.index_within_archive,
                          saved[i].first.offset_within_entry, want, 0)
         THEN i ELSE best_i)

\* The loop of acquire_reader from i on.
RECURSIVE BestSavedReader(_, _, _, _)
BestSavedReader(saved, want, i, best_i) ==
  IF i >= NUM_SAVED_READERS THEN best_i
  ELSE BestSavedReader(
         saved, want, i + 1,
         IF /\ saved[i].first # NullReader
            /\ PairLess(
                 IF best_i < 0 THEN -1
                 ELSE saved[best_i].first.index_within_archive,
                 IF best_i < 0 THEN -1
                 ELSE saved[best_i].first.offset_within_entry,
                 saved[i].first.index_within_archive,
                 saved[i].first.offset_within_entry)
            /\ PairLessEq(saved[i].first.index_within_archive,
                          saved[i].first.offset_within_entry, want, 0)
         THEN i ELSE best_i)

\* The end of acquire_reader returning nullptr without destroying the
\* Reader that advance_index failed on: what C37's count of streams rules
\* out.
AcquireAdvancedLeaking(G, id, a) ==
  IF a.ok
  THEN [r |-> a.r, G |-> [G EXCEPT !.streams[id] = a.st]]
  ELSE [r |-> NullReader, G |-> [G EXCEPT !.streams[id] = a.st]]

\* The end of acquire_reader, a being what advance_index returned for the
\* Reader with stream id: on failure the Reader is destroyed.
AcquireAdvanced(G, id, a) ==
  IF a.ok
  THEN [r |-> a.r, G |-> [G EXCEPT !.streams[id] = a.st]]
  ELSE [r |-> NullReader, G |-> [G EXCEPT !.streams[id] = FreeStream]]

AcquireAdvance(ar, G, r, want) ==
  AcquireAdvanced(G, r.archive, advance_index(ar, r, G.streams[r.archive], want))

\* acquire_reader taking the Reader of slot best_i and leaving the slot's
\* priority as it was: what C38's priority 0 of empty slots rules out.
AcquireBestKeepingPriority(ar, G, want, fault, best_i) ==
  IF best_i >= 0
  THEN AcquireAdvance(
         ar,
         [G EXCEPT !.saved[best_i].first = NullReader],
         G.saved[best_i].first, want)
  ELSE IF fault \in {"oom", "open"}
  THEN [r |-> NullReader, G |-> G]
  ELSE AcquireAdvance(
         ar,
         [G EXCEPT !.streams[FreshId(G.streams)] = FreshStream],
         [NullReader EXCEPT !.archive = FreshId(G.streams)], want)

\* acquire_reader with best_i found.  fault: what fails should a new stream
\* be needed ("oom": archive_read_new, "open": archive_read_open_filename).
AcquireBest(ar, G, want, fault, best_i) ==
  IF best_i >= 0
  THEN AcquireAdvance(
         ar,
         [G EXCEPT !.saved[best_i] = [first |-> NullReader, second |-> 0]],
         G.saved[best_i].first, want)
  ELSE IF fault \in {"oom", "open"}
  THEN [r |-> NullReader, G |-> G]
  ELSE AcquireAdvance(
         ar,
         [G EXCEPT !.streams[FreshId(G.streams)] = FreshStream],
         [NullReader EXCEPT !.archive = FreshId(G.streams)], want)

\* acquire_reader: [r, G], r = NullReader for nullptr.
acquire_reader(ar, G, want_index_within_archive, fault) ==
  IF want_index_within_archive < 0 THEN [r |-> NullReader, G |-> G]
  ELSE AcquireBest(ar, G, want_index_within_archive, fault,
                   BestSavedReader(G.saved, want_index_within_archive, 0, -1))

\* The loop of release_reader looking for the highest priority: what C20's
\* eviction of the least recently released rules out.
RECURSIVE NewestSavedReader(_, _, _)
NewestSavedReader(saved, i, oldest_i) ==
  IF i >= NUM_SAVED_READERS THEN oldest_i
  ELSE NewestSavedReader(
         saved, i + 1,
         IF saved[oldest_i].second < saved[i].second THEN i ELSE oldest_i)

\* The loop of release_reader from i on.
RECURSIVE OldestSavedReader(_, _, _)
OldestSavedReader(saved, i, oldest_i) ==
  IF i >= NUM_SAVED_READERS THEN oldest_i
  ELSE OldestSavedReader(
         saved, i + 1,
         IF saved[oldest_i].second > saved[i].second THEN i ELSE oldest_i)

\* release_reader with oldest_i found: the Reader in the slot is destroyed.
ReleaseInto(G, r, oldest_i) ==
  [G EXCEPT
     !.streams = IF G.saved[oldest_i].first # NullReader
                 THEN [G.streams EXCEPT
                         ![G.saved[oldest_i].first.archive] = FreeStream]
                 ELSE G.streams,
     !.saved[oldest_i] = [first |-> r, second |-> Incr(G.lru)],
     !.lru = Incr(G.lru)]

\* release_reader: the globals after it.
release_reader(G, r) ==
  IF NUM_SAVED_READERS <= 0
  THEN [G EXCEPT !.streams[r.archive] = FreeStream]
  ELSE ReleaseInto(G, r, OldestSavedReader(G.saved, 1, 0))

\* -------------------------------------------------------- file requests

\* What my_read has come to: it returned (pc = "idle", with ret and the
\* bytes out it copied to the caller), or it stands at the top of the loop
\* of advance_offset (pc = "advance") with side buffer sb acquired.  r is
\* the Reader of the file handle and dst_len the clamped length.
ReadReturn(ret, out, r, G) ==
  [pc |-> "idle", ret |-> ret, out |-> out, r |-> r, G |-> G,
   sb |-> -1, dst_len |-> 0]

\* return r->read(dst_ptr, dst_len, pathname), t being what read returned.
ReadTailGot(G, t) ==
  IF t.n = ABORTED
  THEN [ReadReturn(0, <<>>, t.r, G) EXCEPT !.pc = "aborted"]
  ELSE ReadReturn(t.n, t.bytes, t.r, [G EXCEPT !.streams[t.r.archive] = t.st])

ReadTail(ar, G, r, dst_len) ==
  (CHOOSE one \in { ReadTailGot(G, t) :
             t \in {ReaderRead(ar, r, G.streams[r.archive], dst_len)} } : TRUE)

\* The test of the while loop of advance_offset; past the loop, the call
\* returns true and my_read goes on.
AdvanceLoop(ar, G, r, sb, want, dst_len) ==
  IF want > r.offset_within_entry
  THEN [pc |-> "advance", ret |-> 0, out |-> <<>>, r |-> r, G |-> G,
        sb |-> sb, dst_len |-> dst_len]
  ELSE ReadTail(ar, G, r, dst_len)

\* The body of the loop recording the offset the Reader has after the
\* chunk, not the one it had before: what C21's description of the data
\* rules out.
AdvanceIterGotOffsetAfter(ar, G, r, sb, want, dst_len, t) ==
  IF t.n = ABORTED
  THEN [ReadReturn(0, <<>>, t.r, G) EXCEPT !.pc = "aborted"]
  ELSE IF t.n < 0
  THEN ReadReturn(-EIO, <<>>, t.r,
                  [G EXCEPT !.streams[r.archive] = t.st,
                            !.meta[sb] = EmptyMeta])
  ELSE (CHOOSE one \in { AdvanceLoop(ar, G2, t.r, sb, want, dst_len) :
                  G2 \in {[G EXCEPT
                             !.streams[r.archive] = t.st,
                             !.data[sb] = Overwrite(G.data[sb], t.bytes),
                             !.meta[sb] =
                               [index_within_archive |-> t.r.index_within_archive,
                                offset_within_entry |-> t.r.offset_within_entry,
                                length |-> t.n,
                                lru_priority |-> Incr(G.sblru)],
                             !.sblru = Incr(G.sblru)]} } : TRUE)

\* The body of the loop, t being what this->read returned for the chunk.
AdvanceIterGot(ar, G, r, sb, want, dst_len, t) ==
  IF t.n = ABORTED
  THEN [ReadReturn(0, <<>>, t.r, G) EXCEPT !.pc = "aborted"]
  ELSE IF t.n < 0
  THEN ReadReturn(-EIO, <<>>, t.r,
                  [G EXCEPT !.streams[r.archive] = t.st,
                            !.meta[sb] = EmptyMeta])
  ELSE (CHOOSE one \in { AdvanceLoop(ar, G2, t.r, sb, want, dst_len) :
                  G2 \in {[G EXCEPT
                             !.streams[r.archive] = t.st,
                             !.data[sb] = Overwrite(G.data[sb], t.bytes),
                             !.meta[sb] =
                               [index_within_archive |-> t.r.index_within_archive,
                                offset_within_entry |-> r.offset_within_entry,
                                length |-> t.n,
                                lru_priority |-> Incr(G.sblru)],
                             !.sblru = Incr(G.sblru)]} } : TRUE)

\* One iteration of the loop of advance_offset.
AdvanceIter(ar, G, r, sb, want, dst_len) ==
  (CHOOSE one \in { AdvanceIterGot(ar, G, r, sb, want, dst_len, t) :
             t \in {ReaderRead(ar, r, G.streams[r.archive],
                               ChunkLen(want - r.offset_within_entry))} } : TRUE)

\* advance_offset from acquire_side_buffer (its result q) to the loop.
AdvanceAcquired(ar, G, r, want, dst_len, q) ==
  IF q.sb < 0 \/ NUM_SIDE_BUFFERS <= q.sb
  THEN ReadReturn(-EIO, <<>>, r, [G EXCEPT !.meta = q.meta])
  ELSE AdvanceLoop(ar, [G EXCEPT !.meta = q.meta], r, q.sb, want, dst_len)

\* my_read from the call of advance_offset on.
ReadAdvance(ar, G, r, offset, dst_len) ==
  IF r.archive = 0 \/ ~r.archive_entry THEN ReadReturn(-EIO, <<>>, r, G)
  ELSE IF offset < r.offset_within_entry THEN ReadReturn(-EIO, <<>>, r, G)
  ELSE IF offset = r.offset_within_entry THEN ReadTail(ar, G, r, dst_len)
  ELSE AdvanceAcquired(ar, G, r, offset, dst_len, acquire_side_buffer(G.meta))

\* The backward seek handing the acquired Reader both to the file handle
\* and to release_reader, with no swap: what C18's single owner rules out.
ReadSwappedShared(ar, r, offset, dst_len, a) ==
  IF a.r = NullReader \/ a.r.archive = 0
  THEN ReadReturn(-EIO, <<>>, r, a.G)
  ELSE IF ~a.r.archive_entry
  THEN ReadReturn(-EIO, <<>>, r, [a.G EXCEPT !.streams[a.r.archive] = FreeStream])
  ELSE ReadAdvance(ar, release_reader(a.G, a.r), a.r, offset, dst_len)

\* The backward seek destroying the Reader the file handle had instead of
\* releasing it to the cache: what C19's kept stream rules out.
ReadSwappedDropOld(ar, r, offset, dst_len, a) ==
  IF a.r = NullReader \/ a.r.archive = 0
  THEN ReadReturn(-EIO, <<>>, r, a.G)
  ELSE IF ~a.r.archive_entry
  THEN ReadReturn(-EIO, <<>>, r, [a.G EXCEPT !.streams[a.r.archive] = FreeStream])
  ELSE ReadAdvance(ar, [a.G EXCEPT !.streams[r.archive] = FreeStream], a.r,
                   offset, dst_len)

\* The backward seek, a being what acquire_reader returned: swap, then
\* release of the Reader that now holds the handle's former fields.
ReadSwapped(ar, r, offset, dst_len, a) ==
  IF a.r = NullReader \/ a.r.archive = 0
  THEN ReadReturn(-EIO, <<>>, r, a.G)
  ELSE IF ~a.r.archive_entry
  THEN ReadReturn(-EIO, <<>>, r, [a.G EXCEPT !.streams[a.r.archive] = FreeStream])
  ELSE ReadAdvance(ar, release_reader(a.G, r), a.r, offset, dst_len)

\* The backward seek acquiring a Reader for the first entry of the archive
\* whatever entry the file handle was opened on: what C36's fixed index
\* rules out.
ReadMissFirstEntry(ar, G, r, offset, dst_len, fault) ==
  IF offset < r.offset_within_entry
  THEN ReadSwapped(ar, r, offset, dst_len, acquire_reader(ar, G, 0, fault))
  ELSE ReadAdvance(ar, G, r, offset, dst_len)

ReadMiss(ar, G, r, offset, dst_len, fault) ==
  IF offset < r.offset_within_entry
  THEN ReadSwapped(ar, r, offset, dst_len,
                   acquire_reader(ar, G, r.index_within_archive, fault))
  ELSE ReadAdvance(ar, G, r, offset, dst_len)

\* my_read going to the library whatever read_from_side_buffer returned:
\* what C22's reads without a library call rule out.
ReadLookedUpIgnored(ar, G, r, offset, dst_len, fault, c) ==
  ReadMiss(ar, G, r, offset, dst_len, fault)

\* my_read after read_from_side_buffer returned c.
ReadLookedUp(ar, G, r, offset, dst_len, fault, c) ==
  IF c.hit
  THEN ReadReturn(dst_len, c.bytes, r, [G EXCEPT !.meta = c.meta, !.sblru = c.sblru])
  ELSE ReadMiss(ar, G, r, offset, dst_len, fault)

\* my_read with dst_len clamped.
ReadClamped(ar, G, r, offset, dst_len, fault) ==
  IF dst_len = 0 THEN ReadReturn(0, <<>>, r, G)
  ELSE ReadLookedUp(ar, G, r, offset, dst_len, fault,
                    read_from_side_buffer(G.meta, G.data, G.sblru,
                                          r.index_within_archive, dst_len, offset))

\* my_read with the node's size at hand.
ReadSized(ar, G, r, offset, dst_len, fault, size) ==
  IF size < 0 THEN ReadReturn(-EIO, <<>>, r, G)
  ELSE IF size <= offset THEN ReadReturn(0, <<>>, r, G)
  ELSE ReadClamped(ar, G, r, offset,
                   IF dst_len > size - offset THEN size - offset ELSE dst_len,
                   fault)

\* my_read up to its return or to the loop of advance_offset.  r is the
\* Reader ffi->fh points to.
my_read(ar, T, G, r, dst_len, offset, fault) ==
  IF offset < 0 \/ dst_len > INT_MAX THEN ReadReturn(-EINVAL, <<>>, r, G)
  ELSE IF r = NullReader \/ r.archive = 0 \/ ~r.archive_entry
  THEN ReadReturn(-EIO, <<>>, r, G)
  ELSE IF r.index_within_archive < 0
          \/ r.index_within_archive >= Len(T.by_index)
  THEN ReadReturn(-EIO, <<>>, r, G)
  ELSE IF T.by_index[r.index_within_archive + 1] = 0
  THEN ReadReturn(-EIO, <<>>, r, G)
  ELSE ReadSized(ar, G, r, offset, dst_len, fault,
                 T.nodes[T.by_index[r.index_within_archive + 1]].size)

\* my_open after acquire_reader returned a: [ret, r, G].
OpenAcquired(a) ==
  IF a.r = NullReader
  THEN [ret |-> -EIO, r |-> NullReader, G |-> a.G]
  ELSE [ret |-> 0, r |-> a.r, G |-> a.G]

\* my_open testing the access mode before the node's kind: the order C7
\* rules out.
my_open_access_first(ar, T, G, pathname, ffi, flags, fault) ==
  IF pathname \notin DOMAIN T.by_name
  THEN [ret |-> -ENOENT, r |-> NullReader, G |-> G]
  ELSE IF BitAnd(flags, O_ACCMODE) # O_RDONLY
  THEN [ret |-> -EACCES, r |-> NullReader, G |-> G]
  ELSE IF S_ISDIR(T.nodes[T.by_name[pathname]].mode)
  THEN [ret |-> -EISDIR, r |-> NullReader, G |-> G]
  ELSE IF T.nodes[T.by_name[pathname]].index_within_archive < 0 \/ ffi = 0
  THEN [ret |-> -EIO, r |-> NullReader, G |-> G]
  ELSE OpenAcquired(
         acquire_reader(ar, G,
                        T.nodes[T.by_name[pathname]].index_within_archive,
                        fault))

\* my_open: [ret, r, G], r being the Reader stored in ffi->fh.
my_open(ar, T, G, pathname, ffi, flags, fault) ==
  IF pathname \notin DOMAIN T.by_name
  THEN [ret |-> -ENOENT, r |-> NullReader, G |-> G]
  ELSE IF S_ISDIR(T.nodes[T.by_name[pathname]].mode)
  THEN [ret |-> -EISDIR, r |-> NullReader, G |-> G]
  ELSE IF T.nodes[T.by_name[pathname]].index_within_archive < 0 \/ ffi = 0
  THEN [ret |-> -EIO, r |-> NullReader, G |-> G]
  ELSE IF BitAnd(flags, O_ACCMODE) # O_RDONLY
  THEN [ret |-> -EACCES, r |-> NullReader, G |-> G]
  ELSE OpenAcquired(
         acquire_reader(ar, G,
                        T.nodes[T.by_name[pathname]].index_within_archive,
                        fault))

\* my_release: [ret, G].
my_release(G, r) ==
  IF r = NullReader THEN [ret |-> -EIO, G |-> G]
  ELSE [ret |-> 0, G |-> release_reader(G, r)]

Serving ==
  [saved |-> g_saved_readers, lru |-> next_lru_priority, streams |-> streams,
   meta |-> g_side_buffer_metadata, data |-> g_side_buffer_data,
   sblru |-> sb_next_lru_priority]

SetServing(G) ==
  /\ g_saved_readers' = G.saved
  /\ next_lru_priority' = G.lru
  /\ streams' = G.streams
  /\ g_side_buffer_metadata' = G.meta
  /\ g_side_buffer_data' = G.data
  /\ sb_next_lru_priority' = G.sblru

\* libfuse runs single-threaded (-s): a request starts once the one before
\* has returned.
CanServe == pc = "serving" /\ rd.pc = "idle" /\ nreq < MaxOps

OpenReturned(h, pathname, flags, fault, p) ==
  /\ SetServing(p.G)
  /\ handles' = [handles EXCEPT ![h] = p.r]
  /\ opened' = [opened EXCEPT
                  ![h] = IF p.ret = 0 THEN p.r.index_within_archive ELSE -1]
  /\ last' = [op |-> "open", path |-> pathname,
              arg |-> [h |-> h, flags |-> flags, fault |-> fault],
              ret |-> p.ret, out |-> <<>>]

\* An open request, on the first file handle not in use.
Open(pathname, flags, fault) ==
  /\ CanServe
  /\ \E h \in 1..MaxHandles :
       /\ opened[h] < 0
       /\ \A j \in 1..(h - 1) : opened[j] >= 0
       /\ OpenReturned(h, pathname, flags, fault,
                       my_open(archive_file, Tree, Serving, pathname, h, flags,
                               fault))
  /\ nreq' = nreq + 1
  /\ UNCHANGED <<archive_file, pass_vars, main_vars, boot_vars, tree_vars, rd>>

\* my_read has returned or stands in the loop of advance_offset.
ReadReturned(h, offset, len, fault, p) ==
  /\ SetServing(p.G)
  /\ handles' = [handles EXCEPT ![h] = p.r]
  /\ IF p.pc = "advance"
     THEN /\ rd' = [pc |-> "advance", h |-> h, offset |-> offset, len |-> len,
                    fault |-> fault, sb |-> p.sb, dst_len |-> p.dst_len]
          /\ UNCHANGED last
     ELSE IF p.pc = "aborted"
     THEN /\ rd' = [pc |-> "aborted"]
          /\ UNCHANGED last
     ELSE /\ rd' = Idle
          /\ last' = [op |-> "read", path |-> <<>>,
                      arg |-> [h |-> h, entry |-> opened[h], offset |-> offset,
                               len |-> len, fault |-> fault],
                      ret |-> p.ret, out |-> p.out]

\* A read request on an open file handle.
ReadCall(h, offset, dst_len, fault) ==
  /\ CanServe
  /\ opened[h] >= 0
  /\ ReadReturned(h, offset, dst_len, fault,
                  my_read(archive_file, Tree, Serving, handles[h], dst_len,
                          offset, fault))
  /\ nreq' = nreq + 1
  /\ UNCHANGED <<archive_file, pass_vars, main_vars, boot_vars, tree_vars, opened>>

\* The read in progress runs one iteration of the loop of advance_offset
\* and, if that ends the loop, the rest of my_read.
ReadStep ==
  /\ pc = "serving"
  /\ rd.pc = "advance"
  /\ \E G \in {Serving}, r \in {handles[rd.h]} :
       \E p \in {AdvanceIter(archive_file, G, r, rd.sb, rd.offset, rd.dst_len)} :
         ReadReturned(rd.h, rd.offset, rd.len, rd.fault, p)
  /\ UNCHANGED <<archive_file, pass_vars, main_vars, boot_vars, tree_vars, opened, nreq>>

ReleaseReturned(h, p) ==
  /\ SetServing(p.G)
  /\ last' = [op |-> "release", path |-> <<>>, arg |-> [h |-> h],
              ret |-> p.ret, out |-> <<>>]

\* A release request: the kernel's last use of the file handle.
Release(h) ==
  /\ CanServe
  /\ opened[h] >= 0
  /\ ReleaseReturned(h, my_release(Serving, handles[h]))
  /\ handles' = [handles EXCEPT ![h] = NullReader]
  /\ opened' = [opened EXCEPT ![h] = -1]
  /\ nreq' = nreq + 1
  /\ UNCHANGED <<archive_file, pass_vars, main_vars, boot_vars, tree_vars, rd>>

\* Inputs of file requests.  An open: access mode and what fails should a
\* new stream be needed.  A read: offset, length and the same.
OpenInputs ==
  { <<O_RDONLY, "none">>, <<O_RDONLY, "oom">>, <<O_RDONLY, "open">>,
    <<O_RDONLY + 1, "oom">> }

ReadInputs ==
  { <<offset, dst_len, "none">> : offset \in 0..MaxOff, dst_len \in 1..MaxLen }
  \cup { <<offset, 1, "oom">> : offset \in 0..MaxOff }
  \cup { <<-1, 1, "none">>, <<0, INT_MAX + 1, "none">> }

FileRequest ==
  \/ \E path \in OpenPaths, in \in OpenInputs : Open(path, in[1], in[2])
  \/ \E h \in 1..MaxHandles, in \in ReadInputs : ReadCall(h, in[1], in[2], in[3])
  \/ ReadStep
  \/ \E h \in 1..MaxHandles : Release(h)

\* The tree requests of a file-serving run: every path of the tree, with
\* buffers large enough.
ServeTreeRequest ==
  /\ CanServe
  /\ nreq' = nreq + 1
  /\ \/ \E path \in DOMAIN g_nodes_by_name : Getattr(path)
     \/ \E path \in DOMAIN g_nodes_by_name : Readlink(path, 8)
     \/ \E path \in DOMAIN g_nodes_by_name : Readdir(path, Unlimited)
     \/ \E path \in {<<"/">>} : Statfs(path)

\* ------------------------------------------------------------- archives

Ent(path, mode, mtime, size_is_set, data) ==
  [pathname_utf8 |-> path, pathname |-> path, mode |-> mode, mtime |-> mtime,
   size_is_set |-> size_is_set, hsize |-> Len(data), data |-> data,
   symlink |-> <<>>,
   status |-> "OK", derr |-> FALSE, errmsg |-> <<>>, over |-> FALSE]

File(path, mtime, size_is_set, data) ==
  Ent(path, S_IFREG + 420, mtime, size_is_set, data)

Cooked(entries) ==
  [format_raw |-> FALSE, filter_real |-> FALSE, innername |-> <<"h">>,
   entries |-> entries]

\* All sequences over S of length at most n.
RECURSIVE SeqsUpTo(_, _)
SeqsUpTo(S, n) ==
  IF n = 0 THEN {<<>>}
  ELSE LET shorter == SeqsUpTo(S, n - 1)
       IN shorter \cup {Append(q, x) : q \in shorter, x \in S}

\* Archives whose entries exercise every kind of entry insert_leaf and
\* build_tree distinguish.
FeaturePool ==
  { File(<<"a">>, 3, TRUE, <<10, 11, 12>>),
    [File(<<"d", "/", "b">>, 5, FALSE, <<20, 21, 22, 23, 24>>)
       EXCEPT !.mode = S_IFREG + 256],
    Ent(<<"d">>, S_IFDIR + 493, 9, TRUE, <<>>),
    [Ent(<<"d", "/", "l">>, S_IFLNK + 511, 1, TRUE, <<>>)
       EXCEPT !.symlink = <<"a", "b">>],
    Ent(<<"s">>, S_IFLNK + 511, 2, TRUE, <<>>),
    Ent(<<"p">>, S_IFIFO + 420, 2, TRUE, <<>>),
    [File(<<"a", "/", "x">>, 7, FALSE, <<40>>)
       EXCEPT !.status = "WARN", !.pathname_utf8 = NullStr],
    [File(<<"c">>, 6, FALSE, <<50, 51>>)
       EXCEPT !.derr = TRUE, !.errmsg = <<"Incorrect", "passphrase">>],
    [File(<<"f">>, 6, TRUE, <<>>) EXCEPT !.status = "FATAL"] }

FeatureArchives ==
  { Cooked(es) : es \in SeqsUpTo(FeaturePool, MaxEntries) }

\* 'Raw' archives: one compressed stream, which libarchive presents as one
\* entry named "data" whose size is not recorded.
RawArchives ==
  { [format_raw |-> TRUE, filter_real |-> real, innername |-> inner,
     entries |-> << File(<<"d", "a", "t", "a">>, 8, FALSE, data) >>] :
      real \in BOOLEAN,
      inner \in { <<"h">>, <<>>, <<".">>, NullStr },
      data \in { <<>>, <<60>>, <<60, 61, 62>> } }

\* Archives of one or two regular files, over every pathname up to a
\* length (two characters less for two files), and with no pathname.
PathChars == {"a", ".", "/"}

PathArchives ==
  { Cooked(<< File(p, 1, TRUE, <<70>>) >>) :
      p \in SeqsUpTo(PathChars, MaxPathLen) \cup {NullStr} }
  \cup
  { Cooked(<< File(p, 1, TRUE, <<70>>), File(q, 2, TRUE, <<80>>) >>) :
      p \in SeqsUpTo(PathChars, MaxPathLen - 2),
      q \in SeqsUpTo(PathChars, MaxPathLen - 2) }

\* Error strings of the library: each prefix determine_passphrase_exit_code
\* knows, alone and with more text after it, and strings that start with
\* none of them (a proper part of a prefix, a prefix further on, nothing).
ErrorStrings ==
  LET prefixes == { <<"Incorrect", "passphrase">>, <<"Passphrase", "required">> }
                    \cup { not_supported_prefixes[i] :
                             i \in 1..Len(not_supported_prefixes) }
  IN prefixes
     \cup { p \o <<"for", "a">> : p \in prefixes }
     \cup { <<>>, <<"Damaged">>, <<"Passphrase">>, <<"Incorrect">>,
            <<"Truncated;", "Passphrase", "required">>,
            <<"Encryption", "is", "supported">> }

\* Archives whose first non-directory entry cannot be read, the library
\* reporting each of the error strings; a directory may come first.
ErrorArchives ==
  { Cooked(<< [File(<<"a">>, 1, TRUE, <<70>>)
                 EXCEPT !.derr = TRUE, !.errmsg = e] >>) : e \in ErrorStrings }
  \cup
  { Cooked(<< Ent(<<"d">>, S_IFDIR + 493, 9, TRUE, <<>>),
              [File(<<"d", "/", "a">>, 1, FALSE, <<70>>)
                 EXCEPT !.derr = TRUE, !.errmsg = e] >>) :
      e \in { <<"Passphrase", "required">>, <<"Damaged">> } }

\* Archives of two files whose recorded sizes lie on both sides of a
\* block and of two blocks.
SizeArchives ==
  { Cooked(<< [File(<<"a">>, 1, TRUE, <<70>>) EXCEPT !.hsize = g],
              [File(<<"d", "/", "b">>, 2, TRUE, <<80>>) EXCEPT !.hsize = h] >>) :
      g \in {0, 1, block_size, block_size + 1},
      h \in {block_size - 1, 2 * block_size, 2 * block_size + 1} }

\* Archives of one entry of every file type the mode bits can state (0,
\* no type, is what a tar hard link has), alone and before a file.
TypeArchives ==
  { Cooked(<< Ent(<<"h">>, t * 4096 + 420, 4, TRUE, <<>>) >>) : t \in 0..15 }
  \cup
  { Cooked(<< Ent(<<"h">>, t * 4096 + 420, 4, TRUE, <<>>),
              File(<<"h", "/", "a">>, 2, TRUE, <<70>>) >>) : t \in 0..15 }

\* Archives of two files under one directory, the second at the path of
\* the first, below it or beside it, over permission bits that differ.
ModeArchives ==
  { Cooked(<< Ent(<<"d", "/", "b">>, S_IFREG + m1, 5, TRUE, <<70>>),
              Ent(p2, S_IFREG + m2, 6, TRUE, <<80>>) >>) :
      m1 \in {256, 420, 2541}, m2 \in {256, 420, 493},
      p2 \in { <<"d", "/", "b">>, <<"d", "/", "b", "/", "c">>, <<"d", "/", "c">> } }

\* Archives with an entry whose data reads return more than asked for:
\* first or second, its size recorded or not.
OverArchives ==
  { Cooked(<< [File(<<"v">>, 1, set, <<90, 91, 92>>) EXCEPT !.over = TRUE] >>) :
      set \in BOOLEAN }
  \cup
  { Cooked(<< File(<<"a">>, 1, TRUE, <<70>>),
              [File(<<"v">>, 2, set, <<90, 91, 92>>) EXCEPT !.over = TRUE] >>) :
      set \in BOOLEAN }

\* Archives of a file two directories deep and a second file: in the same
\* directory, in the directory above, in the root, at the path of the
\* first and at the path of its directory.
DeepArchives ==
  { Cooked(<< File(<<"d", "/", "e", "/", "f">>, 1, TRUE, <<70>>),
              File(p2, 2, TRUE, <<80>>) >>) :
      p2 \in { <<"d", "/", "e", "/", "g">>, <<"d", "/", "h">>, <<"x">>,
               <<"d", "/", "e", "/", "f">>, <<"d", "/", "e">> } }

BootArchives ==
  FeatureArchives \cup RawArchives \cup PathArchives \cup ErrorArchives
    \cup SizeArchives \cup TypeArchives \cup ModeArchives \cup OverArchives
    \cup DeepArchives

InitBoot == InitWith(BootArchives)

NextBoot == Bootstrap \/ TreeRequest

\* Bootstrap over many archives, then requests on the tree.
BootSpec == InitBoot /\ [][NextBoot]_vars

\* Archives for file requests: entries with and without a recorded size,
\* and one whose data cannot be read.
ServeArchives ==
  { Cooked(<< File(<<"a">>, 1, TRUE, <<10, 11, 12, 13>>),
              File(<<"b">>, 2, FALSE, <<20, 21, 22>>),
              [File(<<"c">>, 3, TRUE, <<30, 31>>)
                 EXCEPT !.derr = TRUE, !.errmsg = <<"Damaged">>] >>),
    Cooked(<< File(<<"u">>, 1, FALSE, <<40, 41, 42>>) >>),
    Cooked(<< [File(<<"v">>, 1, TRUE, <<90, 91, 92>>) EXCEPT !.over = TRUE] >>),
    Cooked(<< [File(<<"w">>, 1, FALSE, <<90, 91, 92>>) EXCEPT !.over = TRUE] >>) }

Init == InitWith(ServeArchives)

Next == Bootstrap \/ ServeTreeRequest \/ FileRequest

\* Bootstrap, then requests of every kind.
Spec == Init /\ [][Next]_vars

\* An archive whose header records a size larger than the data the
\* library returns for the entry, and a sound one.
LoopArchives ==
  { Cooked(<< [File(<<"t">>, 1, TRUE, <<50>>) EXCEPT !.hsize = 3] >>),
    Cooked(<< File(<<"a">>, 1, TRUE, <<10, 11, 12>>) >>) }

InitLoop == InitWith(LoopArchives)

NextLoop == Bootstrap \/ FileRequest

\* A request handler, once entered, runs on: libfuse calls it
\* synchronously, and nothing preempts the loop of advance_offset.
LoopSpec == InitLoop /\ [][NextLoop]_vars /\ WF_vars(ReadStep)

\* What standard input can hold: lines of a password, with and without
\* their newline, empty lines, nothing.
Stdins == SeqsUpTo({"p", "q", "\n"}, MaxStdin)

PassArchives ==
  { Cooked(<< File(<<"a">>, 1, TRUE, <<70>>) >>),
    Cooked(<< Ent(<<"d">>, S_IFDIR + 493, 9, TRUE, <<>>),
              File(<<"d", "/", "a">>, 1, FALSE, <<70, 71>>) >>) }

InitPass == InitState(PassArchives, Stdins)

NextPass == Bootstrap \/ \E tty \in BOOLEAN : PassphraseRequest(tty)

\* Bootstrap with the library asking for the passphrase.
PassSpec == InitPass /\ [][NextPass]_vars

\* --------------------------------------------------------------- claims

\* The decompressed content of the entry of index i, and whether the
\* library can deliver it.
Content(i) == archive_file.entries[i + 1].data
Readable(i) == ~archive_file.entries[i + 1].derr

\* The last reply is that of a read in the domain of my_read (a length the
\* kernel can ask for) during which neither memory nor the archive file
\* failed.
LastIsRead ==
  /\ last.op = "read"
  /\ last.arg.fault = "none"
  /\ last.arg.len <= INT_MAX

\* C1: whatever opens, reads and releases came before, a read at offset
\* >= 0 of an entry E the library can deliver returns n >= 0 bytes that are
\* the bytes [offset, offset + n) of E's content, n <= min(len, size(E) -
\* offset), and returns 0 at or past the end of E.
C1_ReadReturnsContent ==
  (LastIsRead /\ last.arg.offset >= 0 /\ Readable(last.arg.entry)) =>
    LET data == Content(last.arg.entry)
        offset == last.arg.offset
    IN /\ last.ret >= 0
       /\ Len(last.out) = last.ret
       /\ offset >= Len(data) => last.ret = 0
       /\ offset < Len(data) => last.ret <= Min(last.arg.len, Len(data) - offset)
       /\ \A k \in 1..last.ret : last.out[k] = data[offset + k]

\* A read served out of a side buffer: two bytes from offset 0 while the
\* handle's Reader stands further on.
C1_Witness ==
  /\ LastIsRead
  /\ last.arg.offset = 0
  /\ last.ret = 2
  /\ handles[last.arg.h].index_within_archive = last.arg.entry
  /\ handles[last.arg.h].offset_within_entry > 2

\* What a read of (entry i, offset, len) returns, from the archive and the
\* tree alone.
ExpectedRead(i, offset, len) ==
  LET size == nodes[g_nodes_by_index[i + 1]].size
      n == Min(len, size - offset)
  IN IF offset < 0 \/ len > INT_MAX THEN [ret |-> -EINVAL, out |-> <<>>]
     ELSE IF offset >= size THEN [ret |-> 0, out |-> <<>>]
     ELSE IF ~Readable(i) THEN [ret |-> -EIO, out |-> <<>>]
     ELSE [ret |-> n, out |-> SubSeq(Content(i), offset + 1, offset + n)]

\* C2: the byte count and the bytes a read returns are a function of
\* (entry, offset, length): the requests that came before, and with them
\* the contents of the reader cache and of the side buffers, do not show.
C2_ReadIgnoresHistory ==
  (last.op = "read" /\ last.arg.fault = "none") =>
    [ret |-> last.ret, out |-> last.out]
      = ExpectedRead(last.arg.entry, last.arg.offset, last.arg.len)

\* A read after a backward seek: the Reader the handle had before lies in
\* the cache, further on in the same entry.
C2_Witness ==
  /\ LastIsRead
  /\ last.ret > 0
  /\ \E i \in SavedReaders :
       /\ g_saved_readers[i].first.index_within_archive = last.arg.entry
       /\ g_saved_readers[i].first.offset_within_entry
            > last.arg.offset + last.ret

\* C3: after bootstrap the size of every regular-file node is the number
\* of bytes a fresh Reader yields from the node's entry, from offset 0 to
\* the end of the entry (the library yields the entry's whole content),
\* whether the header records the size or insert_leaf measures it, the
\* first non-directory entry included.
C3_SizeIsContentLength ==
  pc = "serving" =>
    \A n \in 1..Len(nodes) :
      (/\ S_ISREG(nodes[n].mode)
       /\ nodes[n].index_within_archive >= 0
       /\ Readable(nodes[n].index_within_archive))
      => nodes[n].size = Len(Content(nodes[n].index_within_archive))

\* The components of a pathname: the pieces its slashes separate.
RECURSIVE Components(_)
Components(p) ==
  IF \A i \in 1..Len(p) : p[i] # "/" THEN <<p>>
  ELSE LET i == CHOOSE j \in 1..Len(p) :
                  p[j] = "/" /\ \A k \in 1..(j - 1) : p[k] # "/"
       IN <<SubSeq(p, 1, i - 1)>> \o Components(SubSeq(p, i + 1, Len(p)))

\* p has an empty, '.' or '..' component.
HasBadComponent(p) ==
  \E k \in 1..Len(Components(p)) :
    Components(p)[k] \in { <<>>, <<".">>, <<".", ".">> }

\* p without one leading "./" or "/".
StripLead(p) ==
  IF Len(p) >= 2 /\ p[1] = "." /\ p[2] = "/" THEN SubSeq(p, 3, Len(p))
  ELSE IF Len(p) >= 1 /\ p[1] = "/" THEN SubSeq(p, 2, Len(p))
  ELSE p

\* Every key of g_nodes_by_name is well formed and names its node.
KeysWellFormed ==
  \A P \in DOMAIN g_nodes_by_name :
    /\ Len(P) >= 1 /\ P[1] = "/"
    /\ P # <<"/">> => ~HasBadComponent(Tail(P))
    /\ LET cs == Components(Tail(P))
       IN nodes[g_nodes_by_name[P]].rel_name = cs[Len(cs)]

\* Entry i has left a node in the tree.
HasNode(i) ==
  \E n \in 1..Len(nodes) : nodes[n].index_within_archive = i

\* The library reads the whole archive without an error or a warning.
Sound(ar) ==
  /\ ~ar.format_raw
  /\ \A i \in 1..Len(ar.entries) :
       ar.entries[i].status = "OK" /\ ~ar.entries[i].derr

\* No pathname of a sound archive makes either phase of bootstrap fail.
PathnamesDoNotAbort ==
  Sound(archive_file) =>
    /\ pre_initialize(archive_file,
                      g_side_buffer_data[SIDE_BUFFER_INDEX_DECOMPRESSED]).ret = 0
    /\ phase_ret.B \in { <<>>, <<0>> }

\* p without the leading "/" of an absolute pathname.
StripSlash(p) ==
  IF Len(p) >= 1 /\ p[1] = "/" THEN SubSeq(p, 2, Len(p)) ELSE p

\* C4 as stated: well-formed keys; an entry whose pathname is missing,
\* empty or has an empty, '.' or '..' component (the slash an absolute
\* pathname starts with does not count for an empty component) creates no
\* node and does not abort bootstrap.
C4_AsStated ==
  pc = "serving" =>
    /\ KeysWellFormed
    /\ PathnamesDoNotAbort
    /\ \A i \in 1..Len(archive_file.entries) :
         LET p == EntryPathname(archive_file.entries[i])
         IN (p = NullStr \/ HasBadComponent(StripSlash(p))) => ~HasNode(i - 1)

\* C4, amended: the components are those of the pathname without one
\* leading "./" or "/", which normalize_pathname tolerates ("./a" and "/a"
\* both create the node "/a").  After bootstrap every key starts with '/',
\* has no empty, '.' or '..' component (so no trailing slash) and maps to a
\* node whose rel_name is the key's last component; an entry with no
\* pathname, or whose pathname less that prefix has an empty, '.' or '..'
\* component, creates no node, and bootstrap succeeds all the same.
C4_KeysWellFormed ==
  /\ PathnamesDoNotAbort
  /\ pc = "serving" =>
       /\ KeysWellFormed
       /\ \A i \in 1..Len(archive_file.entries) :
            LET p == EntryPathname(archive_file.entries[i])
            IN (p = NullStr \/ HasBadComponent(StripLead(p))) => ~HasNode(i - 1)

\* Bootstrap has skipped an entry with a '..' component and inserted
\* another entry.
C4_Witness ==
  /\ pc = "serving"
  /\ Len(archive_file.entries) = 2
  /\ \E k \in 1..Len(Components(archive_file.entries[1].pathname)) :
        Components(archive_file.entries[1].pathname)[k] = <<".", ".">>
  /\ ~HasNode(0)
  /\ HasNode(1)

\* C5: once bootstrap is over no request, successful or failing, changes
\* g_nodes_by_name, g_nodes_by_index, g_block_count, the root pointer or
\* any field or link of any Node.
C5_TreeImmutable ==
  [][pc = "serving" =>
       /\ g_nodes_by_name' = g_nodes_by_name
       /\ g_nodes_by_index' = g_nodes_by_index
       /\ g_block_count' = g_block_count
       /\ g_root_node' = g_root_node
       /\ nodes' = nodes]_vars

\* File and tree requests have been served, the last one failing: all
\* handles are in use, a Reader lies in the cache and a side buffer is
\* filled.
C5_Witness ==
  /\ pc = "serving"
  /\ last.op \in {"getattr", "readlink", "readdir", "statfs"}
  /\ last.ret < 0
  /\ \A h \in 1..MaxHandles : opened[h] >= 0
  /\ \E i \in SavedReaders : g_saved_readers[i].first # NullReader
  /\ \E i \in SideBuffers : g_side_buffer_metadata[i].length > 0

\* C6: every read request runs to completion: a my_read that has entered
\* the chunk loop of Reader::advance_offset returns, whatever the library
\* delivers, the end of the entry before the offset asked for included.
C6_ReadTerminates == (rd.pc = "advance") ~> (rd.pc = "idle")

\* The reader cache holds a Reader that stands at or before the start of
\* the entry of this index, so that acquire_reader needs no new stream.
CachedReaderServes(index) ==
  \E i \in SavedReaders :
    /\ g_saved_readers[i].first # NullReader
    /\ \/ g_saved_readers[i].first.index_within_archive < index
       \/ /\ g_saved_readers[i].first.index_within_archive = index
          /\ g_saved_readers[i].first.offset_within_entry = 0

\* What my_open returns for (pathname, flags) when a new stream, should one
\* be needed, fails as fault says: the first check that fails, in order.
ExpectedOpen(pathname, flags, fault) ==
  IF pathname \notin DOMAIN g_nodes_by_name THEN -ENOENT
  ELSE IF S_ISDIR(nodes[g_nodes_by_name[pathname]].mode) THEN -EISDIR
  ELSE IF nodes[g_nodes_by_name[pathname]].index_within_archive < 0 THEN -EIO
  ELSE IF BitAnd(flags, O_ACCMODE) # O_RDONLY THEN -EACCES
  ELSE IF /\ fault # "none"
          /\ ~CachedReaderServes(
                nodes[g_nodes_by_name[pathname]].index_within_archive)
  THEN -EIO
  ELSE 0

\* C7: my_open returns the first failing check of: path absent, -ENOENT;
\* directory, -EISDIR; node index < 0, -EIO; access mode not read-only,
\* -EACCES; no Reader acquired, -EIO.  Otherwise it returns 0 and the
\* handle owns a Reader (and its stream) at the start of the node's entry;
\* on an error the handle owns none.
C7_OpenChecksInOrder ==
  [][(rd.pc = "idle" /\ rd'.pc = "idle" /\ nreq' = nreq + 1
        /\ last'.op = "open")
     => /\ last'.ret = ExpectedOpen(last'.path, last'.arg.flags, last'.arg.fault)
        /\ last'.ret # 0 => handles'[last'.arg.h] = NullReader
        /\ last'.ret = 0 =>
             /\ handles'[last'.arg.h].archive # 0
             /\ handles'[last'.arg.h].archive_entry
             /\ handles'[last'.arg.h].index_within_archive
                  = nodes[g_nodes_by_name[last'.path]].index_within_archive
             /\ handles'[last'.arg.h].offset_within_entry = 0
             /\ streams'[handles'[last'.arg.h].archive]
                  = [cur |-> handles'[last'.arg.h].index_within_archive,
                     dpos |-> 0]
             /\ \A h \in 1..MaxHandles :
                  h # last'.arg.h =>
                    handles'[h].archive # handles'[last'.arg.h].archive]_vars

\* An open that succeeds although no new stream could have been made: a
\* cached Reader is handed over.
C7_Witness ==
  /\ last.op = "open"
  /\ last.ret = 0
  /\ last.arg.fault = "oom"

\* The direct children of node d in the order of their insertion: Node
\* objects are allocated as they are inserted, so in the order of the heap.
RECURSIVE ChildrenFrom(_, _)
ChildrenFrom(d, n) ==
  IF n > Len(nodes) THEN <<>>
  ELSE (IF nodes[n].parent = d THEN <<n>> ELSE <<>>) \o ChildrenFrom(d, n + 1)

\* The names readdir is to emit for directory node d.
Listing(d) ==
  << <<".">>, <<".", ".">> >>
    \o [k \in 1..Len(ChildrenFrom(d, 1)) |-> nodes[ChildrenFrom(d, 1)[k]].rel_name]

\* C8: readdir of a directory D emits '.', '..', then the rel_name of each
\* direct child of D once, in the order of first insertion, and nothing
\* else, returning 0; when the filler refuses a name (its buffer being
\* full after last.arg names) it returns -ENOMEM, the names before that one
\* emitted; on a path that is no directory it returns -ENOTDIR.
C8_ReaddirListsChildren ==
  (last.op = "readdir" /\ last.path \in DOMAIN g_nodes_by_name) =>
    LET d == g_nodes_by_name[last.path]
    IN IF ~S_ISDIR(nodes[d].mode)
       THEN last.ret = -ENOTDIR /\ last.out = <<>>
       ELSE IF last.arg >= Len(Listing(d))
       THEN last.ret = 0 /\ last.out = Listing(d)
       ELSE last.ret = -ENOMEM /\ last.out = SubSeq(Listing(d), 1, last.arg)

\* The whole listing of a directory other than the root that has two
\* children.
C8_Witness ==
  /\ last.op = "readdir"
  /\ last.path # <<"/">>
  /\ last.ret = 0
  /\ Len(last.out) = 4
  /\ last.out[3] # last.out[4]

\* C9: requests are served only after pre_initialize and then
\* post_initialize_sync have both returned 0, the mount point being made
\* between the two; when either returns an error the process exits with a
\* non-zero code and no request has been served; when pre_initialize
\* fails no mount point has been made.
C9_PhaseOrder ==
  /\ (pc = "serving" \/ last # NoRequest) =>
       /\ phase_ret.A = <<0>>
       /\ phase_ret.B = <<0>>
       /\ mount_point \in {"created", "exists"}
  /\ phase_ret.B # <<>> => (phase_ret.A = <<0>> /\ mount_point # "none")
  /\ mount_point # "none" => phase_ret.A = <<0>>
  /\ pc = "mounted" => phase_ret.B = <<>>
  /\ (phase_ret.A \notin { <<>>, <<0>> }) =>
       /\ pc = "exited"
       /\ exit_code # EXIT_SUCCESS
       /\ exit_code = TRY_EXIT_CODE(phase_ret.A[1])
       /\ mount_point = "none"
       /\ phase_ret.B = <<>>
       /\ last = NoRequest
  /\ (phase_ret.B \notin { <<>>, <<0>> }) =>
       /\ pc = "exited"
       /\ exit_code # EXIT_SUCCESS
       /\ exit_code = TRY_EXIT_CODE(phase_ret.B[1])
       /\ mount_point # "created"
       /\ last = NoRequest

\* post_initialize_sync has failed after the mount point was made: the
\* process has exited and removed it.
C9_Witness ==
  /\ phase_ret.A = <<0>>
  /\ phase_ret.B \notin { <<>>, <<0>> }
  /\ pc = "exited"
  /\ mount_point = "removed"

\* Every entry of the archive is a directory.
OnlyDirectories(ar) ==
  \A i \in 1..Len(ar.entries) :
    S_ISDIR(ar.entries[i].mode) /\ ar.entries[i].status = "OK"

\* C10: an archive with no entries, or with directory entries only,
\* bootstraps to a tree of the root node alone (pre_initialize returns 0
\* with the root inserted, post_initialize_sync returns 0), and readdir of
\* '/' then yields '.' and '..' and nothing else.
C10_EmptyArchive ==
  (~archive_file.format_raw /\ OnlyDirectories(archive_file)) =>
    /\ pre_initialize(archive_file,
                      g_side_buffer_data[SIDE_BUFFER_INDEX_DECOMPRESSED]).ret = 0
    /\ phase_ret.A \in { <<>>, <<0>> } => phase_ret.B \in { <<>>, <<0>> }
    /\ pc \in {"probed", "mounted", "serving"} =>
         /\ DOMAIN g_nodes_by_name = { <<"/">> }
         /\ Len(nodes) = 1
         /\ g_root_node = 1
         /\ nodes[1].first_child = 0
    /\ (last.op = "readdir" /\ last.path = <<"/">> /\ last.arg >= 2) =>
         /\ last.ret = 0
         /\ last.out = << <<".">>, <<".", ".">> >>

\* readdir of '/' has returned 0 on an archive of directories only.
C10_Witness ==
  /\ Len(archive_file.entries) >= 1
  /\ OnlyDirectories(archive_file)
  /\ last.op = "readdir"
  /\ last.path = <<"/">>
  /\ last.ret = 0

\* C11: whenever requests are served, for every archive that bootstraps,
\* one without a non-directory entry included, the archive file
\* descriptor of bootstrap has been closed and the decompression stream
\* of bootstrap has been freed.
C11_BootstrapResourcesReleased ==
  pc = "serving" =>
    /\ g_archive_fd = "closed"
    /\ g_initialize_archive = NullArchive

\* e begins with the words of p.
BeginsWith(e, p) ==
  Len(p) <= Len(e) /\ \A k \in 1..Len(p) : e[k] = p[k]

\* The error strings that stand for encryption the library cannot handle.
UnsupportedEncryption ==
  { <<"Crypto", "codec", "not", "supported">>,
    <<"Decryption", "is", "unsupported">>,
    <<"Encrypted", "file", "is", "unsupported">>,
    <<"Encryption", "is", "not", "supported">>,
    <<"RAR", "encryption", "support", "unavailable">>,
    <<"The", "archive", "header", "is", "encrypted,", "but", "currently",
      "not", "supported">>,
    <<"The", "file", "content", "is", "encrypted,", "but", "currently",
      "not", "supported">>,
    <<"Unsupported", "encryption", "format">> }

\* The exit codes an error string e calls for.
ExitCodesFor(e) ==
  (IF BeginsWith(e, <<"Incorrect", "passphrase">>) THEN {21} ELSE {})
  \cup (IF BeginsWith(e, <<"Passphrase", "required">>) THEN {20} ELSE {})
  \cup (IF \E p \in UnsupportedEncryption : BeginsWith(e, p) THEN {22} ELSE {})

\* The position of the first non-directory entry of ar, 0 if the library
\* does not get to one.
FirstLeaf(ar) ==
  IF \E i \in 1..Len(ar.entries) :
       /\ ~S_ISDIR(ar.entries[i].mode)
       /\ \A j \in 1..i : ar.entries[j].status \in {"OK", "WARN"}
       /\ \A j \in 1..(i - 1) : S_ISDIR(ar.entries[j].mode)
  THEN CHOOSE i \in 1..Len(ar.entries) :
         /\ ~S_ISDIR(ar.entries[i].mode)
         /\ \A j \in 1..(i - 1) : S_ISDIR(ar.entries[j].mode)
  ELSE 0

\* The one-byte read of pre_initialize fails on ar.
ProbeFails(ar) ==
  /\ ~ar.format_raw
  /\ FirstLeaf(ar) > 0
  /\ ar.entries[FirstLeaf(ar)].derr

\* pre_initialize got to read the archive file.
ArchiveWasRead ==
  g_side_buffer_data[SIDE_BUFFER_INDEX_COMPRESSED][1] = COMPRESSED

\* C12: determine_passphrase_exit_code gives every error string one exit
\* code: 21 when it begins "Incorrect passphrase", 20 when it begins
\* "Passphrase required", 22 when it begins with one of the eight
\* unsupported-encryption strings (no string calls for two of these), 32
\* otherwise; and that is the code pre_initialize returns, and main exits
\* with, when the one-byte read of the first non-directory entry of a
\* non-raw archive fails.
C12_PassphraseExitCode ==
  /\ \A e \in ErrorStrings :
       /\ Cardinality(ExitCodesFor(e)) <= 1
       /\ determine_passphrase_exit_code(e) \in
            (IF ExitCodesFor(e) = {} THEN {32} ELSE ExitCodesFor(e))
  /\ ProbeFails(archive_file) =>
       LET e == archive_file.entries[FirstLeaf(archive_file)].errmsg
           code == IF ExitCodesFor(e) = {} THEN 32
                   ELSE CHOOSE c \in ExitCodesFor(e) : TRUE
       IN /\ pre_initialize(
               archive_file,
               g_side_buffer_data[SIDE_BUFFER_INDEX_DECOMPRESSED]).ret = code
          /\ ArchiveWasRead =>
               /\ phase_ret.A = <<code>>
               /\ pc = "exited"
               /\ exit_code = code

\* main has exited with "passphrase required" from an archive whose
\* first non-directory entry, after a directory, cannot be read.
C12_Witness ==
  /\ ProbeFails(archive_file)
  /\ FirstLeaf(archive_file) = 2
  /\ ArchiveWasRead
  /\ pc = "exited"
  /\ exit_code = EXIT_CODE_PASSPHRASE_REQUIRED

\* The line entered on the input in: its characters before the first
\* newline.
EnteredLine(in) ==
  LET k == CHOOSE k \in 0..Len(in) :
             /\ \A j \in 1..k : in[j] # "\n"
             /\ k = Len(in) \/ in[k + 1] = "\n"
  IN SubSeq(in, 1, k)

\* s without the newlines at its end.
WithoutTrailingNewlines(s) ==
  LET k == CHOOSE k \in 0..Len(s) :
             /\ \A j \in (k + 1)..Len(s) : s[j] = "\n"
             /\ k = 0 \/ s[k] # "\n"
  IN SubSeq(s, 1, k)

\* How many times the prompt has been written.
Prompts == Cardinality({ k \in 1..Len(cout) : cout[k] = "Password > " })

\* C13: the first request for the passphrase returns the entered line
\* without its trailing newlines, or nullptr when that is empty; every later
\* request returns nullptr and neither writes the prompt nor reads standard
\* input, whatever the first returned; so the prompt is written and
\* standard input is read at most once.
C13_PasswordAskedOnce ==
  [][ /\ password_count' # password_count =>
           IF password_count = 0
           THEN LET line == WithoutTrailingNewlines(EnteredLine(cin))
                IN last'.out = IF line = <<>> THEN NullStr ELSE line
           ELSE /\ last'.out = NullStr
                /\ cin' = cin
                /\ cout' = cout
      /\ (cin' # cin \/ cout' # cout) => password_count = 0
      /\ Prompts' <= 1 ]_vars

\* The third request has returned nullptr after the first read a password
\* at a terminal, with a line still on standard input.
C13_Witness ==
  /\ password_count = 3
  /\ password = <<"p">>
  /\ Prompts = 1
  /\ cin # <<>>
  /\ last.op = "password"
  /\ last.out = NullStr

\* The nodes of the tree: the root and every node linked under a parent.
TreeNodes == { n \in 1..Len(nodes) : n = g_root_node \/ nodes[n].parent # 0 }

\* The least number of blocks of 512 bytes that hold size bytes.
BlocksFor(size) ==
  CHOOSE k \in 0..size : k * 512 >= size /\ (k = 0 \/ (k - 1) * 512 < size)

\* The blocks of the leaves among the first n nodes of the heap.
RECURSIVE LeafBlocks(_)
LeafBlocks(n) ==
  IF n = 0 THEN 0
  ELSE LeafBlocks(n - 1)
       + (IF n \in TreeNodes /\ ~S_ISDIR(nodes[n].mode)
          THEN BlocksFor(nodes[n].size) ELSE 0)

\* C14: once bootstrap has succeeded, g_nodes_by_name holds one pathname
\* for each node of the tree, root included, and g_block_count is 1, plus
\* the number of nodes besides the root, plus the blocks of 512 bytes
\* (rounded up) of every leaf; statfs reports that number of files, that
\* number of blocks, and no free or available block or inode.
C14_StatfsCounts ==
  pc = "serving" =>
    /\ Cardinality(DOMAIN g_nodes_by_name) = Cardinality(TreeNodes)
    /\ g_block_count = 1 + (Cardinality(TreeNodes) - 1) + LeafBlocks(Len(nodes))
    /\ my_statfs.ret = 0
    /\ my_statfs.out.f_files = Cardinality(TreeNodes)
    /\ my_statfs.out.f_blocks = g_block_count
    /\ last.op = "statfs" =>
         /\ last.ret = 0
         /\ last.out.f_files = Cardinality(TreeNodes)
         /\ last.out.f_blocks = g_block_count
         /\ last.out.f_bfree = 0 /\ last.out.f_bavail = 0
         /\ last.out.f_ffree = 0 /\ last.out.f_favail = 0

\* statfs has answered for a tree of a file of one byte over a block and a
\* file of one byte over two blocks in a directory no entry names: 4 nodes,
\* 1 + 3 + 2 + 3 blocks.
C14_Witness ==
  /\ last.op = "statfs"
  /\ last.out.f_files = 4
  /\ last.out.f_blocks = 9
  /\ \E n \in TreeNodes : nodes[n].size = 2 * block_size + 1

\* This step is an open request answered.
OpenStep ==
  /\ rd.pc = "idle" /\ rd'.pc = "idle"
  /\ nreq' = nreq + 1
  /\ last'.op = "open"

\* The entry my_open asks acquire_reader for on (pathname, flags), -1 when
\* it returns before.
OpenTarget(pathname, flags) ==
  IF \/ pathname \notin DOMAIN g_nodes_by_name
     \/ BitAnd(flags, O_ACCMODE) # O_RDONLY
  THEN -1
  ELSE IF S_ISDIR(nodes[g_nodes_by_name[pathname]].mode) THEN -1
  ELSE nodes[g_nodes_by_name[pathname]].index_within_archive

\* (index, offset) of the cached Reader of slot i is at most that of j.
NotAfter(i, j) ==
  LET a == g_saved_readers[i].first
      b == g_saved_readers[j].first
  IN \/ a.index_within_archive < b.index_within_archive
     \/ /\ a.index_within_archive = b.index_within_archive
        /\ a.offset_within_entry <= b.offset_within_entry

\* The slots whose cached Reader is at (index, offset) <= (target, 0).
Qualifying(target) ==
  { i \in SavedReaders :
      /\ g_saved_readers[i].first # NullReader
      /\ \/ g_saved_readers[i].first.index_within_archive < target
         \/ /\ g_saved_readers[i].first.index_within_archive = target
            /\ g_saved_readers[i].first.offset_within_entry <= 0 }

\* The decompression streams that are open.
LiveStreams == { id \in 1..MaxStreams : streams[id] # FreeStream }

\* C15: when my_open calls acquire_reader(target), and a cached Reader is
\* at (index, offset) <= (target, 0), a Reader with the greatest such
\* (index, offset) is taken out of the cache, the other slots stay, no
\* stream is opened (a failure to open one changes nothing) and the Reader
\* returned is the one taken; when none is, the cache stays, the Reader
\* returned is on a stream opened for it, and a failure to open one makes the
\* open fail.
C15_AcquireReusesNearest ==
  [][ OpenStep /\ OpenTarget(last'.path, last'.arg.flags) >= 0 =>
        LET target == OpenTarget(last'.path, last'.arg.flags)
            h == last'.arg.h
        IN IF Qualifying(target) # {}
           THEN \E i \in Qualifying(target) :
                  /\ \A j \in Qualifying(target) : NotAfter(j, i)
                  /\ g_saved_readers'[i].first = NullReader
                  /\ \A j \in SavedReaders \ {i} :
                       g_saved_readers'[j] = g_saved_readers[j]
                  /\ LiveStreams' \subseteq LiveStreams
                  /\ last'.ret = 0 =>
                       handles'[h].archive = g_saved_readers[i].first.archive
           ELSE /\ g_saved_readers' = g_saved_readers
                /\ last'.arg.fault # "none" => last'.ret = -EIO
                /\ last'.ret = 0 =>
                     /\ handles'[h].archive \notin LiveStreams
                     /\ LiveStreams' = LiveStreams \cup {handles'[h].archive} ]_vars

\* The third entry and then the first have been opened and released (the
\* streams 1 and 2), and the open of the second has taken the Reader left
\* at the first, stream 2, leaving the one at the third in the cache and
\* opening no third stream.
C15_Witness ==
  /\ last.op = "open"
  /\ last.ret = 0
  /\ handles[last.arg.h].index_within_archive = 1
  /\ handles[last.arg.h].archive = 2
  /\ LiveStreams = {1, 2}
  /\ \E i \in SavedReaders :
       /\ g_saved_readers[i].first.archive = 1
       /\ g_saved_readers[i].first.index_within_archive = 2

\* What acquire_reader can be asked for: every entry, and one past the last.
Targets == 0..Len(archive_file.entries)

\* acquire_reader(target) returning a, from the cache and streams of this
\* state, does as C16 says.
AcquiredAtTarget(target, fault, a) ==
  /\ \A i \in SavedReaders \ Qualifying(target) :
       a.G.saved[i] = g_saved_readers[i]
  /\ a.r # NullReader =>
       /\ a.r.index_within_archive = target
       /\ a.r.offset_within_entry = 0
       /\ a.G.streams[a.r.archive] = [cur |-> target, dpos |-> 0]
  /\ (Qualifying(target) = {} /\ fault # "none") => a.r = NullReader
  /\ target >= Len(archive_file.entries) => a.r = NullReader
  /\ a.r = NullReader =>
       \A id \in 1..MaxStreams :
         a.G.streams[id] # FreeStream =>
           /\ id \in LiveStreams
           /\ \E i \in SavedReaders : a.G.saved[i].first.archive = id
              \/ \E h \in 1..MaxHandles : handles[h].archive = id

\* C16: between requests, for every target >= 0, acquire_reader(target)
\* leaves in the cache every Reader positioned after (target, 0); a Reader
\* it returns is at index = target, offset = 0, as is its stream; when no
\* stream can be opened for want of a cached Reader, or the archive ends
\* before the target, it returns nullptr, and then no stream is left open
\* but those of the cache and of the handles.
C16_AcquirePositionsAtTarget ==
  (pc = "serving" /\ rd.pc = "idle") =>
    \A target \in Targets, fault \in {"none", "oom", "open"} :
      AcquiredAtTarget(target, fault,
                       acquire_reader(archive_file, Serving, target, fault))

\* The third entry has been opened and released and the second then opened:
\* its Reader is at (1, 0) on a stream of its own, the Reader at the third
\* entry still in the cache.
C16_Witness ==
  /\ last.op = "open"
  /\ last.ret = 0
  /\ handles[last.arg.h].index_within_archive = 1
  /\ handles[last.arg.h].offset_within_entry = 0
  /\ \E i \in SavedReaders :
       /\ g_saved_readers[i].first.index_within_archive = 2
       /\ g_saved_readers[i].first.archive # handles[last.arg.h].archive

\* The Readers of the file handles hs and of the cache sv.
ReadersIn(hs, sv) ==
  ({ hs[h] : h \in 1..MaxHandles } \cup { sv[i].first : i \in SavedReaders })
    \ {NullReader}

\* The Reader among them that holds the stream id.
HolderIn(hs, sv, id) == CHOOSE r \in ReadersIn(hs, sv) : r.archive = id

HeldIn(hs, sv, id) == \E r \in ReadersIn(hs, sv) : r.archive = id

\* Reader a is positioned before Reader b.
Before(a, b) ==
  \/ a.index_within_archive < b.index_within_archive
  \/ /\ a.index_within_archive = b.index_within_archive
     /\ a.offset_within_entry < b.offset_within_entry

\* advance_index(want) on Reader r never lowers the index, sets the
\* offset to 0 when it raises the index and leaves it otherwise.
AdvanceIndexResets(r, want, a) ==
  /\ a.r.archive = r.archive
  /\ a.r.index_within_archive >= r.index_within_archive
  /\ a.r.index_within_archive > r.index_within_archive =>
       a.r.offset_within_entry = 0
  /\ a.r.index_within_archive = r.index_within_archive =>
       a.r.offset_within_entry = r.offset_within_entry
  /\ a.ok => a.r.index_within_archive >= want

\* C17: a Reader is made with index_within_archive = -1; in every step
\* of serving, the Reader that holds a stream is afterwards not before
\* where it was ((index, offset) in lexicographic order), as is the stream
\* itself; advance_index never lowers the index, and sets the offset to 0
\* when, and only when, it raises the index; my_read's advance_offset to an
\* offset below the Reader's fails, -EIO, changing nothing; and a file
\* handle whose Reader is before where it was holds another stream than
\* before.
C17_ReadersOnlyAdvance ==
  /\ [](pc = "serving" =>
          /\ NullReader.index_within_archive = -1
          /\ \A r \in ReadersIn(handles, g_saved_readers) :
               /\ \A want \in Targets :
                    AdvanceIndexResets(
                      r, want,
                      advance_index(archive_file, r, streams[r.archive], want))
               /\ \A want \in 0..(r.offset_within_entry - 1) :
                    ReadAdvance(archive_file, Serving, r, want, 1)
                      = ReadReturn(-EIO, <<>>, r, Serving))
  /\ [][ pc = "serving" =>
        /\ \A id \in LiveStreams :
             (/\ streams'[id] # FreeStream
              /\ HeldIn(handles, g_saved_readers, id)
              /\ HeldIn(handles', g_saved_readers', id)) =>
               /\ ~Before(HolderIn(handles', g_saved_readers', id),
                          HolderIn(handles, g_saved_readers, id))
               /\ streams'[id].cur >= streams[id].cur
               /\ streams'[id].cur = streams[id].cur =>
                    streams'[id].dpos >= streams[id].dpos
        /\ \A id \in 1..MaxStreams :
             (streams[id] = FreeStream /\ streams'[id] # FreeStream) =>
               /\ HeldIn(handles', g_saved_readers', id)
               /\ streams'[id].cur =
                    HolderIn(handles', g_saved_readers', id).index_within_archive
               /\ streams'[id].cur >= 0
        /\ \A h \in 1..MaxHandles :
             (/\ opened[h] >= 0 /\ opened'[h] = opened[h]
              /\ Before(handles'[h], handles[h])) =>
               handles'[h].archive # handles[h].archive ]_vars

\* A read below the offset of its file handle has been served: the stream
\* the handle held is in the cache where it was, ahead of the stream the
\* handle now holds on the same entry.
C17_Witness ==
  /\ last.op = "read"
  /\ last.ret > 0
  /\ \E i \in SavedReaders :
       /\ g_saved_readers[i].first # NullReader
       /\ g_saved_readers[i].first.index_within_archive
            = handles[last.arg.h].index_within_archive
       /\ handles[last.arg.h].offset_within_entry
            < g_saved_readers[i].first.offset_within_entry
       /\ last.arg.offset < g_saved_readers[i].first.offset_within_entry

\* The file handles and cache slots whose Reader holds the stream id.
Owners(id) ==
  { <<"handle", h>> : h \in { k \in 1..MaxHandles : handles[k].archive = id } }
  \cup
  { <<"slot", i>> :
      i \in { k \in SavedReaders : g_saved_readers[k].first.archive = id } }

\* C18: between requests every open decompression stream is held by the
\* Reader of exactly one file handle or of exactly one slot of the reader
\* cache, and no Reader holds a stream that has been freed.
C18_OneOwnerPerStream ==
  (pc = "serving" /\ rd.pc = "idle") =>
    \A id \in 1..MaxStreams :
      IF streams[id] # FreeStream
      THEN Cardinality(Owners(id)) = 1
      ELSE Owners(id) = {}

\* A file handle has been released after a read below the offset of the
\* other handle swapped Readers: both slots of the cache hold a stream,
\* one of them ahead of the open handle on the same entry.
C18_Witness ==
  /\ last.op = "release"
  /\ last.ret = 0
  /\ \A i \in SavedReaders : g_saved_readers[i].first # NullReader
  /\ Cardinality(LiveStreams) = 3
  /\ \E h \in 1..MaxHandles, i \in SavedReaders :
       /\ handles[h] # NullReader
       /\ handles[h].index_within_archive
            = g_saved_readers[i].first.index_within_archive
       /\ handles[h].offset_within_entry
            < g_saved_readers[i].first.offset_within_entry

\* Some side buffer holds the len bytes at offset of the entry index.
InSideBuffer(index, offset, len) ==
  \E sb \in SideBuffers :
    /\ g_side_buffer_metadata[sb].index_within_archive >= 0
    /\ g_side_buffer_metadata[sb].index_within_archive = index
    /\ g_side_buffer_metadata[sb].offset_within_entry <= offset
    /\ offset + len <= g_side_buffer_metadata[sb].offset_within_entry
                         + g_side_buffer_metadata[sb].length

\* my_read of one byte at offset, below the offset of the Reader r of a
\* file handle, came to p (its return, or the loop of advance_offset).
BackwardRead(r, offset, fault, p) ==
  IF Qualifying(r.index_within_archive) = {} /\ fault # "none"
  THEN /\ p.pc = "idle"
       /\ p.ret = -EIO
       /\ p.r = r
       /\ p.G.saved = g_saved_readers
       /\ p.G.streams = streams
  ELSE /\ p.r.archive # r.archive
       /\ p.r.index_within_archive = r.index_within_archive
       /\ \E i \in SavedReaders : p.G.saved[i].first = r
       /\ p.G.streams[r.archive] = streams[r.archive]
       /\ IF offset > 0
          THEN /\ p.pc = "advance"
               /\ p.r.offset_within_entry = 0
               /\ p.G.streams[p.r.archive]
                    = [cur |-> r.index_within_archive, dpos |-> 0]
          ELSE /\ p.pc = "idle"
               /\ p.ret = 1
               /\ p.out = SubSeq(Content(r.index_within_archive), 1, 1)
               /\ p.r.offset_within_entry = 1

\* C19: between requests, for every file handle and every offset below the
\* offset of its Reader whose byte no side buffer holds, my_read swaps: the
\* handle's Reader gets another stream, on the same entry and at offset 0
\* when the advance to the requested offset begins (at the offset plus
\* what was read when the offset is 0), and the stream it had is in the
\* reader cache where it was; when no cached Reader serves and no stream can
\* be opened, my_read returns -EIO and the handle's Reader, the cache and
\* the streams are as before.
C19_BackwardReadSwaps ==
  (pc = "serving" /\ rd.pc = "idle") =>
    \A h \in 1..MaxHandles, fault \in {"none", "oom", "open"} :
      opened[h] >= 0 =>
        \A offset \in 0..(handles[h].offset_within_entry - 1) :
          ~InSideBuffer(handles[h].index_within_archive, offset, 1) =>
            BackwardRead(handles[h], offset, fault,
                         my_read(archive_file, Tree, Serving, handles[h], 1,
                                 offset, fault))

\* A read at an offset above 0 and below the handle's has been served
\* from a swapped Reader: the handle is where the read ended and the
\* stream it had is in the cache, further on in the same entry.
C19_Witness ==
  /\ last.op = "read"
  /\ last.arg.offset > 0
  /\ last.ret > 0
  /\ handles[last.arg.h].offset_within_entry = last.arg.offset + last.ret
  /\ \E i \in SavedReaders :
       /\ g_saved_readers[i].first # NullReader
       /\ g_saved_readers[i].first.index_within_archive
            = handles[last.arg.h].index_within_archive
       /\ g_saved_readers[i].first.offset_within_entry
            > handles[last.arg.h].offset_within_entry

\* The slots of the reader cache that hold a Reader.
Occupied == { i \in SavedReaders : g_saved_readers[i].first # NullReader }

\* release_reader(r) turned the cache and the streams into those of G2,
\* storing r in slot i.
ReleasedInto(r, G2, i) ==
  /\ G2.saved[i].first = r
  /\ \A j \in SavedReaders \ {i} :
       /\ G2.saved[j] = g_saved_readers[j]
       /\ G2.saved[i].second > g_saved_readers[j].second
  /\ \A j \in SavedReaders :
       g_saved_readers[i].second <= g_saved_readers[j].second
  /\ Occupied # SavedReaders => i \notin Occupied
  /\ \A id \in 1..MaxStreams :
       G2.streams[id] =
         IF i \in Occupied /\ g_saved_readers[i].first.archive = id
         THEN FreeStream ELSE streams[id]

\* C20: between requests the cache holds at most NUM_SAVED_READERS
\* Readers, an empty slot has priority 0, and the Readers cached have
\* priorities above 0 that differ, in the order they were released
\* (each release gives a priority above all others); release_reader(r) of
\* the Reader of any file handle stores r with a priority above that of
\* every other slot, in a slot of lowest priority, an empty one while
\* there is one, destroying the Reader that was in it and its stream and
\* touching nothing else.
C20_ReleaseEvictsOldest ==
  (pc = "serving" /\ rd.pc = "idle") =>
    /\ Cardinality(Occupied) <= NUM_SAVED_READERS
    /\ \A i \in SavedReaders :
         /\ i \notin Occupied => g_saved_readers[i].second = 0
         /\ i \in Occupied =>
              /\ g_saved_readers[i].second > 0
              /\ g_saved_readers[i].second <= next_lru_priority
              /\ \A j \in Occupied \ {i} :
                   g_saved_readers[j].second # g_saved_readers[i].second
    /\ \A h \in 1..MaxHandles :
         opened[h] >= 0 =>
           \E i \in SavedReaders :
             ReleasedInto(handles[h], release_reader(Serving, handles[h]), i)

\* The third release of the run has evicted the Reader released first:
\* the cache holds those released second and third.
C20_Witness ==
  /\ last.op = "release"
  /\ last.ret = 0
  /\ next_lru_priority = 3
  /\ { g_saved_readers[i].second : i \in SavedReaders } = {2, 3}
  /\ Occupied = SavedReaders
  /\ Cardinality(LiveStreams) = 2

\* The metadata m of a side buffer says that the buffer is empty.
IsEmptyMeta(m) == m.index_within_archive = -1

\* The side buffer sb holds what its metadata says: length bytes of the
\* content of an entry, from an offset on.
Describes(sb) ==
  LET m == g_side_buffer_metadata[sb]
  IN /\ m.index_within_archive >= 0
     /\ m.index_within_archive < Len(archive_file.entries)
     /\ m.offset_within_entry >= 0
     /\ 0 <= m.length /\ m.length <= SIDE_BUFFER_SIZE
     /\ SubSeq(g_side_buffer_data[sb], 1, m.length)
          = SubSeq(Content(m.index_within_archive),
                   m.offset_within_entry + 1, m.offset_within_entry + m.length)

\* C21: between requests the metadata of every side buffer either says
\* empty (index = -1) or has index >= 0, offset >= 0, 0 <= length <=
\* SIDE_BUFFER_SIZE with the first length bytes of the buffer being the
\* bytes [offset, offset + length) of the content of the entry; and when a
\* read of the library fails in the loop of advance_offset the buffer
\* acquired for the loop is left empty, the others as they were.
C21_SideBuffersDescribeData ==
  /\ []((pc = "serving" /\ rd.pc = "idle") =>
          \A sb \in SideBuffers :
            IsEmptyMeta(g_side_buffer_metadata[sb]) \/ Describes(sb))
  /\ [][ (/\ pc = "serving"
          /\ rd.pc = "advance" /\ rd'.pc = "idle"
          /\ last'.ret = -EIO) =>
           /\ IsEmptyMeta(g_side_buffer_metadata'[rd.sb])
           /\ \A sb \in SideBuffers \ {rd.sb} :
                /\ g_side_buffer_metadata'[sb] = g_side_buffer_metadata[sb]
                /\ g_side_buffer_data'[sb] = g_side_buffer_data[sb] ]_vars

\* A read of an entry the library cannot decompress has failed while
\* advancing: one side buffer is empty and the other still holds two bytes
\* of the first entry from an offset above 0.
C21_Witness ==
  /\ last.op = "read"
  /\ last.ret = -EIO
  /\ ~Readable(last.arg.entry)
  /\ last.arg.offset > 0
  /\ \E sb \in SideBuffers : IsEmptyMeta(g_side_buffer_metadata[sb])
  /\ \E sb \in SideBuffers :
       /\ Describes(sb)
       /\ g_side_buffer_metadata[sb].index_within_archive = 0
       /\ g_side_buffer_metadata[sb].offset_within_entry > 0
       /\ g_side_buffer_metadata[sb].length = 2

\* This step is my_read entered and returned at once.
ReadCallStep ==
  /\ rd.pc = "idle" /\ rd'.pc = "idle"
  /\ nreq' = nreq + 1
  /\ last'.op = "read"

\* The length my_read clamps len to for a read at offset of entry i.
ClampedLen(i, offset, len) ==
  Min(len, nodes[g_nodes_by_index[i + 1]].size - offset)

\* The metadata m2 is m but for its LRU priority.
SameRange(m, m2) ==
  /\ m2.index_within_archive = m.index_within_archive
  /\ m2.offset_within_entry = m.offset_within_entry
  /\ m2.length = m.length

\* C22: a read whose bytes (len clamped to the size of the node) some side
\* buffer holds returns exactly those bytes, as many as the clamped len, and
\* leaves the Reader of the handle, the reader cache, every stream of the
\* library and the data, index, offset and length of every side buffer as
\* they were; the LRU priority changes of one buffer that holds the bytes,
\* and of no other.
C22_SideBufferHitFrame ==
  [][ (/\ ReadCallStep
       /\ last'.arg.offset >= 0
       /\ last'.arg.len <= INT_MAX
       /\ ClampedLen(last'.arg.entry, last'.arg.offset, last'.arg.len) > 0
       /\ InSideBuffer(last'.arg.entry, last'.arg.offset,
                       ClampedLen(last'.arg.entry, last'.arg.offset,
                                  last'.arg.len))) =>
        LET i == last'.arg.entry
            offset == last'.arg.offset
            n == ClampedLen(i, offset, last'.arg.len)
        IN /\ last'.ret = n
           /\ last'.out = SubSeq(Content(i), offset + 1, offset + n)
           /\ handles' = handles
           /\ g_saved_readers' = g_saved_readers
           /\ next_lru_priority' = next_lru_priority
           /\ streams' = streams
           /\ g_side_buffer_data' = g_side_buffer_data
           /\ \A sb \in SideBuffers :
                SameRange(g_side_buffer_metadata[sb], g_side_buffer_metadata'[sb])
           /\ \E hit \in SideBuffers :
                /\ g_side_buffer_metadata[hit].index_within_archive = i
                /\ g_side_buffer_metadata[hit].offset_within_entry <= offset
                /\ offset + n <= g_side_buffer_metadata[hit].offset_within_entry
                                   + g_side_buffer_metadata[hit].length
                /\ g_side_buffer_metadata'[hit].lru_priority
                     # g_side_buffer_metadata[hit].lru_priority
                /\ \A sb \in SideBuffers \ {hit} :
                     g_side_buffer_metadata'[sb] = g_side_buffer_metadata[sb] ]_vars

\* The first two bytes of the first entry have been read from the side
\* buffer an earlier read at offset 2 filled: the Reader of the handle is
\* still at offset 4 and no Reader is cached.
C22_Witness ==
  /\ last.op = "read"
  /\ last.arg.entry = 0
  /\ last.arg.offset = 0
  /\ last.ret = 2
  /\ handles[last.arg.h].offset_within_entry = 4
  /\ Occupied = {}
  /\ sb_next_lru_priority = 2
  /\ \E sb \in SideBuffers :
       g_side_buffer_metadata[sb]
         = [index_within_archive |-> 0, offset_within_entry |-> 0,
            length |-> 2, lru_priority |-> 2]

\* The side buffers that cover (idx, off, len) as C23 says.
Covering(idx, off, len) ==
  { sb \in SideBuffers :
      /\ g_side_buffer_metadata[sb].index_within_archive = idx
      /\ g_side_buffer_metadata[sb].offset_within_entry <= off
      /\ g_side_buffer_metadata[sb].length
           - (off - g_side_buffer_metadata[sb].offset_within_entry) >= len }

\* read_from_side_buffer(idx, off, len) returned c.
SideBufferLookup(idx, off, len, c) ==
  IF Covering(idx, off, len) = {}
  THEN /\ ~c.hit
       /\ c.meta = g_side_buffer_metadata
       /\ c.sblru = sb_next_lru_priority
  ELSE /\ c.hit
       /\ \E b \in Covering(idx, off, len) :
            /\ \A q \in Covering(idx, off, len) :
                 g_side_buffer_metadata[q].length
                   <= g_side_buffer_metadata[b].length
            /\ c.bytes =
                 SubSeq(g_side_buffer_data[b],
                        off - g_side_buffer_metadata[b].offset_within_entry + 1,
                        off - g_side_buffer_metadata[b].offset_within_entry + len)
            /\ SameRange(g_side_buffer_metadata[b], c.meta[b])
            /\ \A sb \in SideBuffers \ {b} :
                 /\ c.meta[sb] = g_side_buffer_metadata[sb]
                 /\ c.meta[b].lru_priority > c.meta[sb].lru_priority

\* C23: between requests, for every entry idx >= 0, offset and length,
\* read_from_side_buffer hits exactly when some buffer has meta.index =
\* idx, meta.offset <= off and meta.length - (off - meta.offset) >= len;
\* on a hit the bytes are the len bytes at off - meta.offset of a buffer
\* of greatest length among those, whose priority becomes higher than
\* every other's, nothing else changing; on a miss nothing changes.
C23_SideBufferLookup ==
  (pc = "serving" /\ rd.pc = "idle") =>
    \A idx \in 0..(Len(archive_file.entries) - 1), off \in 0..MaxOff,
       len \in 0..(SIDE_BUFFER_SIZE + 1) :
      SideBufferLookup(
        idx, off, len,
        read_from_side_buffer(g_side_buffer_metadata, g_side_buffer_data,
                              sb_next_lru_priority, idx, len, off))

\* A read of one byte at offset 0 that two side buffers hold, one with 1
\* byte and one with 2, has been served from the one with 2.
C23_Witness ==
  /\ last.op = "read"
  /\ last.arg.offset = 0
  /\ last.ret = 1
  /\ \E b \in SideBuffers, q \in SideBuffers :
       /\ g_side_buffer_metadata[q].index_within_archive = last.arg.entry
       /\ g_side_buffer_metadata[q].offset_within_entry = 0
       /\ g_side_buffer_metadata[q].length = 1
       /\ g_side_buffer_metadata[b].index_within_archive = last.arg.entry
       /\ g_side_buffer_metadata[b].offset_within_entry = 0
       /\ g_side_buffer_metadata[b].length = 2
       /\ g_side_buffer_metadata[b].lru_priority = sb_next_lru_priority
       /\ g_side_buffer_metadata[q].lru_priority < sb_next_lru_priority - 1

\* The side buffers whose metadata says they hold data.
Filled == { sb \in SideBuffers : ~IsEmptyMeta(g_side_buffer_metadata[sb]) }

\* acquire_side_buffer() returned q: a buffer of lowest priority, marked
\* empty with the priority that protects it, the others as they were.
AcquiredOldest(q) ==
  /\ q.sb \in SideBuffers
  /\ \A sb \in SideBuffers :
       g_side_buffer_metadata[q.sb].lru_priority
         <= g_side_buffer_metadata[sb].lru_priority
  /\ Filled # SideBuffers => q.sb \notin Filled
  /\ IsEmptyMeta(q.meta[q.sb])
  /\ q.meta[q.sb].offset_within_entry = -1
  /\ q.meta[q.sb].length = -1
  /\ q.meta[q.sb].lru_priority = UINT64_MAX
  /\ \A sb \in SideBuffers \ {q.sb} : q.meta[sb] = g_side_buffer_metadata[sb]

\* A step gives a priority to a filled side buffer only from the counter
\* it has just increased, which puts the buffer above every other.
PriorityFromCounter ==
  /\ sb_next_lru_priority' >= sb_next_lru_priority
  /\ \A sb \in SideBuffers :
       (/\ ~IsEmptyMeta(g_side_buffer_metadata'[sb])
        /\ g_side_buffer_metadata'[sb].lru_priority
             # g_side_buffer_metadata[sb].lru_priority) =>
         /\ sb_next_lru_priority' = sb_next_lru_priority + 1
         /\ g_side_buffer_metadata'[sb].lru_priority = sb_next_lru_priority'
         /\ \A t \in SideBuffers \ {sb} :
              /\ g_side_buffer_metadata'[t] = g_side_buffer_metadata[t]
              /\ ~IsEmptyMeta(g_side_buffer_metadata[t]) =>
                   g_side_buffer_metadata[t].lru_priority
                     < sb_next_lru_priority'

\* C24: acquire_side_buffer returns a side buffer of lowest lru_priority
\* (an empty one while there is one) and marks it empty; the filled
\* buffers have priorities above 0 that differ, each given on a fill or a
\* hit from the one counter after increasing it, so that their order is
\* the order of their last fill or hit and the buffer evicted among
\* filled ones is the least recently filled or hit.
C24_AcquireEvictsOldest ==
  /\ [](pc = "serving" =>
          /\ \A sb \in Filled :
               /\ g_side_buffer_metadata[sb].lru_priority > 0
               /\ g_side_buffer_metadata[sb].lru_priority
                    <= sb_next_lru_priority
               /\ \A t \in Filled \ {sb} :
                    g_side_buffer_metadata[t].lru_priority
                      # g_side_buffer_metadata[sb].lru_priority
          /\ rd.pc = "idle" =>
               AcquiredOldest(acquire_side_buffer(g_side_buffer_metadata)))
  /\ [][PriorityFromCounter]_vars

\* Every side buffer has been filled once, by one chunk each, and the
\* next advance_offset has acquired the one filled first: the others
\* keep their data.
C24_Witness ==
  /\ pc = "serving"
  /\ rd.pc = "advance"
  /\ rd.sb = 0
  /\ g_side_buffer_metadata[rd.sb].lru_priority = UINT64_MAX
  /\ Filled = SideBuffers \ {rd.sb}
  /\ sb_next_lru_priority = NUM_SIDE_BUFFERS
  /\ nreq = NUM_SIDE_BUFFERS + 2

\* The lengths of the chunks the loop of advance_offset asks for from
\* offset o to target, each returned in full.
RECURSIVE Chunks(_, _)
Chunks(o, target) ==
  IF target > o
  THEN <<ChunkLen(target - o)>> \o Chunks(o + ChunkLen(target - o), target)
  ELSE <<>>

RECURSIVE Sum(_)
Sum(s) == IF s = <<>> THEN 0 ELSE Head(s) + Sum(Tail(s))

\* The remainder first: what C25 says of the chunks of a long advance.
RemainderFirst(cs, d) ==
  /\ Len(cs) >= 2
  /\ cs[1] = (IF d % SIDE_BUFFER_SIZE = 0 THEN SIDE_BUFFER_SIZE
              ELSE d % SIDE_BUFFER_SIZE)
  /\ \A k \in 2..Len(cs) : cs[k] = SIDE_BUFFER_SIZE
  /\ Sum(cs) = d

\* One iteration of the loop of advance_offset succeeded.
ChunkStep ==
  /\ pc = "serving"
  /\ rd.pc = "advance"
  /\ rd'.pc # "aborted"
  /\ ~(rd'.pc = "idle" /\ last'.ret = -EIO /\ IsEmptyMeta(g_side_buffer_metadata'[rd.sb]))

\* The iteration was the first of its loop: the buffer is as acquired.
FirstChunk == g_side_buffer_metadata[rd.sb].lru_priority = UINT64_MAX

\* The range of the side buffer of the loop after the iteration.
ChunkFrom == g_side_buffer_metadata'[rd.sb].offset_within_entry
ChunkLength == g_side_buffer_metadata'[rd.sb].length

\* C25: the chunks advance_offset asks for over a distance above
\* SIDE_BUFFER_SIZE are the remainder (a full buffer if there is none)
\* and then full buffers; in a run each successful iteration puts the
\* chunk just read, from the Reader's offset on, in the acquired buffer,
\* the first chunk of a long advance being the remainder and every later
\* one full, and when the loop ends the buffer's range ends at the target,
\* is [target - SIDE_BUFFER_SIZE, target) after a long advance, and the
\* Reader stood at the target for the read that follows.
C25_RemainderFirst ==
  /\ []((pc = "serving" /\ rd.pc = "advance") =>
          \A o \in 0..SIDE_BUFFER_SIZE, d \in 1..(3 * SIDE_BUFFER_SIZE + 1) :
            /\ Sum(Chunks(o, o + d)) = d
            /\ d > SIDE_BUFFER_SIZE => RemainderFirst(Chunks(o, o + d), d))
  /\ [][ ChunkStep =>
           /\ g_side_buffer_metadata'[rd.sb].index_within_archive = opened[rd.h]
           /\ ChunkFrom = handles[rd.h].offset_within_entry
           /\ ChunkLength >= 1
           /\ ChunkFrom + ChunkLength <= rd.offset
           /\ (FirstChunk /\ rd.offset - ChunkFrom > SIDE_BUFFER_SIZE) =>
                ChunkLength =
                  (IF (rd.offset - ChunkFrom) % SIDE_BUFFER_SIZE = 0
                   THEN SIDE_BUFFER_SIZE
                   ELSE (rd.offset - ChunkFrom) % SIDE_BUFFER_SIZE)
           /\ ~FirstChunk => ChunkLength = SIDE_BUFFER_SIZE
           /\ rd'.pc = "advance" =>
                /\ handles'[rd.h].offset_within_entry = ChunkFrom + ChunkLength
                /\ ChunkFrom + ChunkLength < rd.offset
           /\ rd'.pc = "idle" =>
                /\ ChunkFrom + ChunkLength = rd.offset
                /\ ~FirstChunk => ChunkFrom = rd.offset - SIDE_BUFFER_SIZE
                /\ last'.ret >= 0 =>
                     handles'[rd.h].offset_within_entry = rd.offset + last'.ret
         ]_vars

\* The first read of a run, at offset SIDE_BUFFER_SIZE + 1 from offset 0,
\* has returned: the side buffer holds the SIDE_BUFFER_SIZE bytes before
\* the target, the second of two chunks.
C25_Witness ==
  /\ nreq = 2
  /\ last.op = "read"
  /\ last.arg.offset = SIDE_BUFFER_SIZE + 1
  /\ last.ret >= 1
  /\ sb_next_lru_priority = 2
  /\ \E sb \in SideBuffers :
       /\ g_side_buffer_metadata[sb].index_within_archive = last.arg.entry
       /\ g_side_buffer_metadata[sb].offset_within_entry = 1
       /\ g_side_buffer_metadata[sb].length = SIDE_BUFFER_SIZE

\* Node n was made from the k-th header of the archive (from 0): it has
\* the header's normalized pathname and the header's mtime.
MadeFromHeader(n, k) ==
  /\ k < Len(archive_file.entries)
  /\ nodes[n].mtime = archive_file.entries[k + 1].mtime
  /\ nodes[n].symlink = archive_file.entries[k + 1].symlink
  /\ \E P \in DOMAIN g_nodes_by_name :
       /\ g_nodes_by_name[P] = n
       /\ P = normalize_pathname(archive_file.entries[k + 1], g_archive_is_raw,
                                 archive_file.innername)

\* A Reader that has read the headers up to the j-th (none if j = -1),
\* and its stream.
ReaderAt(j) ==
  [archive |-> 1, archive_entry |-> j >= 0, index_within_archive |-> j,
   offset_within_entry |-> 0]

StreamAt(j) == [cur |-> j, dpos |-> 0]

\* advance_index(want) returned a for a Reader on the j-th header.
AdvancedTo(j, want, a) ==
  /\ a.ok =>
       /\ a.r.index_within_archive = want
       /\ a.st.cur = want
       /\ a.r.archive_entry
       /\ archive_file.entries[want + 1].status \in {"OK", "WARN"}
  /\ want >= Len(archive_file.entries) => ~a.ok
  /\ (\A i \in (j + 2)..(want + 1) :
        /\ i <= Len(archive_file.entries)
        /\ archive_file.entries[i].status \in {"OK", "WARN"}) => a.ok

\* C26: after bootstrap every leaf Node has the index k of the header it
\* was made from, counting from 0 every header the library returned,
\* directories and skipped entries included; and advance_index(want) of a
\* Reader that stands on header j <= want (on none, j = -1) succeeds if
\* and only if every header up to want is there and is returned with OK
\* or WARN, and then leaves the Reader and its stream on header want.
C26_IndexCountsHeaders ==
  pc = "serving" =>
    /\ \A n \in 1..Len(nodes) :
         nodes[n].index_within_archive >= 0 =>
           MadeFromHeader(n, nodes[n].index_within_archive)
    /\ \A want \in 0..Len(archive_file.entries),
          j \in -1..(Len(archive_file.entries) - 1) :
         j <= want =>
           AdvancedTo(j, want,
                      advance_index(archive_file, ReaderAt(j), StreamAt(j), want))

\* Bootstrap has made a node from the third header of an archive whose
\* first header is a directory and whose second was skipped.
C26_Witness ==
  /\ pc = "serving"
  /\ Len(archive_file.entries) = 3
  /\ S_ISDIR(archive_file.entries[1].mode)
  /\ ~S_ISDIR(archive_file.entries[2].mode)
  /\ ~HasNode(0)
  /\ ~HasNode(1)
  /\ HasNode(2)
  /\ archive_file.entries[3].status = "WARN"

\* The normalized pathname of the i-th entry of the archive (from 1), ""
\* if the pathname is not valid.
NormalizedPath(i) ==
  normalize_pathname(archive_file.entries[i], g_archive_is_raw,
                     archive_file.innername)

\* The proper ancestors of an absolute pathname, the root excepted.
Ancestors(P) == { SubSeq(P, 1, k - 1) : k \in { j \in 2..Len(P) : P[j] = "/" } }

\* The keys the entries S account for.
KeysOf(S) ==
  { <<"/">> } \cup { NormalizedPath(j) : j \in S }
    \cup UNION { Ancestors(NormalizedPath(j)) : j \in S }

\* Entry i collides with the entries S accepted before it: its path is
\* taken, or a proper prefix of its path is one of their files.
Collides(i, S) ==
  \/ NormalizedPath(i) \in KeysOf(S)
  \/ \E j \in S : NormalizedPath(j) \in Ancestors(NormalizedPath(i))

\* The type of entry e is among types, or e is a symlink that has a target.
TypeAccepted(e, types) ==
  IF S_ISLNK(e.mode) THEN e.symlink # <<>>
  ELSE BitAnd(e.mode, S_IFMT) \in types

\* The entries accepted among the first i, types being the file types of
\* the entries taken as regular files.
RECURSIVE AcceptedUpTo(_, _)
AcceptedUpTo(i, types) ==
  IF i = 0 THEN {}
  ELSE IF /\ ~S_ISDIR(archive_file.entries[i].mode)
          /\ NormalizedPath(i) # <<>>
          /\ TypeAccepted(archive_file.entries[i], types)
          /\ ~Collides(i, AcceptedUpTo(i - 1, types))
  THEN AcceptedUpTo(i - 1, types) \cup {i}
  ELSE AcceptedUpTo(i - 1, types)

\* The tree is the one of the entries S: their keys, their nodes, and no
\* directory but the root without a child.
TreeOfEntries(S) ==
  /\ DOMAIN g_nodes_by_name = KeysOf(S)
  /\ \A i \in 1..Len(archive_file.entries) : HasNode(i - 1) <=> i \in S
  /\ \A i \in S :
       nodes[g_nodes_by_name[NormalizedPath(i)]].index_within_archive = i - 1
  /\ \A P \in DOMAIN g_nodes_by_name :
       (is_dir(nodes[g_nodes_by_name[P]]) /\ P # <<"/">>) =>
         nodes[g_nodes_by_name[P]].first_child # 0

\* The library reports an error while bootstrap reads the archive: a
\* header it cannot return, or data it cannot decompress, of the first
\* entry that is no directory or of an entry measured for its size.
FirstFile(ar, i) ==
  /\ ~S_ISDIR(ar.entries[i].mode)
  /\ \A j \in 1..(i - 1) : S_ISDIR(ar.entries[j].mode)

LibraryError(ar, types) ==
  \E i \in 1..Len(ar.entries) :
    \/ ar.entries[i].status = "FATAL"
    \/ /\ ar.entries[i].derr
       /\ \/ FirstFile(ar, i)
          \/ /\ ~ar.entries[i].size_is_set
             /\ ~S_ISDIR(ar.entries[i].mode)
             /\ NormalizedPath(i) # <<>>
             /\ TypeAccepted(ar.entries[i], types)

\* What C27 says, the entries taken as regular files being those of the
\* types given.
BootstrapAccepts(types) ==
  /\ pc = "serving" =>
       /\ TreeOfEntries(AcceptedUpTo(Len(archive_file.entries), types))
       /\ ~LibraryError(archive_file, types)
  /\ (~LibraryError(archive_file, types) /\ ~archive_file.format_raw) =>
       /\ pre_initialize(archive_file,
                         g_side_buffer_data[SIDE_BUFFER_INDEX_DECOMPRESSED]).ret = 0
       /\ phase_ret.B \in { <<>>, <<0>> }

\* The file types insert_leaf lets through as regular files: every type
\* that is not a directory, a symlink, a device, a FIFO or a socket.
TypesNotRejected ==
  { t * 4096 : t \in 0..15 }
    \ { S_IFDIR, S_IFLNK, S_IFBLK, S_IFCHR, S_IFIFO, S_IFSOCK }

\* The tree is as C27 says once every type insert_leaf does not reject
\* counts as a regular file.
AcceptsWhatIsNotRejected == BootstrapAccepts(TypesNotRejected)

\* C27: after a successful bootstrap the keys of nodes_by_name are '/',
\* the normalized paths of the accepted entries and their proper
\* ancestors, an entry being accepted iff it is no directory, its
\* pathname is valid, it is a regular file or a symlink with a target,
\* and it does not collide with an entry accepted before; the accepted
\* entries are those with a node, every directory but the root has a
\* child, the other entries do not make bootstrap fail, and an error of
\* the library does.
C27_AcceptedEntries == BootstrapAccepts({ S_IFREG })

\* What build_tree returns, at the point where main calls it, for the
\* archive cut after its k-th entry (the entry pre_initialize stopped at
\* is among them).
BuiltFrom(k) ==
  build_tree([archive_file EXCEPT !.entries = SubSeq(@, 1, k)],
             [cur |-> g_initialize_archive.cur, dpos |-> g_initialize_archive.dpos],
             insert_root_node,
             g_side_buffer_data[SIDE_BUFFER_INDEX_DECOMPRESSED],
             g_archive_is_raw, g_initialize_index_within_archive)

\* Entry i, a regular file or a symlink with a valid pathname, collides
\* with the tree T: its path is a key of T, or a proper prefix of its
\* path is the key of a node that is no directory.
CollidesWithTree(T, i) ==
  /\ ~S_ISDIR(archive_file.entries[i].mode)
  /\ NormalizedPath(i) # <<>>
  /\ TypeAccepted(archive_file.entries[i], { S_IFREG })
  /\ \/ NormalizedPath(i) \in DOMAIN T.by_name
     \/ \E A \in Ancestors(NormalizedPath(i)) :
          /\ A \in DOMAIN T.by_name
          /\ ~is_dir(T.nodes[T.by_name[A]])

\* Entry k + 1 collides with the tree of the entries before it and the
\* tree is the same with it as without it.
SkippedWithoutEffect(k, before, after) ==
  (before.ret = 0 /\ after.ret = 0 /\ CollidesWithTree(before.T, k + 1)) =>
    after.T = before.T

\* C28: before build_tree runs, for every entry of the archive but the
\* first read: if the entry collides with the tree build_tree makes of
\* the entries before it (its path exists, or a proper prefix of its
\* path names a node that is no directory), the tree build_tree makes
\* with the entry is that same tree: same keys, same nodes with the same
\* fields (mode, mtime and size among them), same index, same blocks.
C28_CollisionHasNoEffect ==
  (pc = "mounted" /\ g_root_node = 0) =>
    \A k \in (g_initialize_index_within_archive + 1)..(Len(archive_file.entries) - 1) :
      SkippedWithoutEffect(k, BuiltFrom(k), BuiltFrom(k + 1))

\* The Nodes made from an entry of the archive.
IndexedNodes == { n \in 1..Len(nodes) : nodes[n].index_within_archive >= 0 }

RECURSIVE Under(_, _)
Under(n, d) ==
  /\ nodes[n].parent # 0
  /\ \/ nodes[n].parent = d
     \/ Under(nodes[n].parent, d)

\* The leaves under directory d.
LeavesUnder(d) == { n \in IndexedNodes : Under(n, d) }

\* C30: after bootstrap the mtime of every directory of the tree that
\* has a leaf under it, the root included, is the greatest mtime of the
\* leaves under it, whatever the archive, entries skipped or not.
C30_DirectoryMtime ==
  pc = "serving" =>
    \A d \in TreeNodes :
      (is_dir(nodes[d]) /\ LeavesUnder(d) # {}) =>
        /\ \E n \in LeavesUnder(d) : nodes[n].mtime = nodes[d].mtime
        /\ \A n \in LeavesUnder(d) : nodes[n].mtime <= nodes[d].mtime

\* The directory mtimes are as C30 says in the archives none of whose
\* entries collides with the tree of those before it.
NoCollision ==
  \A i \in 1..Len(archive_file.entries) :
    (/\ ~S_ISDIR(archive_file.entries[i].mode)
     /\ NormalizedPath(i) # <<>>
     /\ TypeAccepted(archive_file.entries[i], TypesNotRejected)) =>
      ~Collides(i, AcceptedUpTo(i - 1, TypesNotRejected))

DirectoryMtimeWithoutCollision == NoCollision => C30_DirectoryMtime

PermBits(m) == BitAnd(m, 4095)

PropagatedBits(m) ==
  BitOr(BitAnd(m, 365), BitAnd(BitAnd(m, 365), 292) \div 4)

\* The archive entry Node n was made from.
EntryOf(n) == archive_file.entries[nodes[n].index_within_archive + 1]

\* Bit b (as a power of two) is set in x.
HasBit(x, b) == BitAnd(x, b) # 0

\* C32: after bootstrap no Node has a permission bit outside 0555; the
\* mode of a leaf is the mode of its entry restricted to 0555 with the
\* type bits of a regular file, or of a symlink if it has a target; the
\* mode of a directory other than the root is the directory type with,
\* as permission bits, exactly the bits rx | (r >> 2) of the leaves under
\* it (rx = mode & 0555, r = rx & 0444).
C32_Modes ==
  pc = "serving" =>
    /\ \A n \in TreeNodes : BitAnd(PermBits(nodes[n].mode), 4095 - 365) = 0
    /\ \A n \in IndexedNodes :
         nodes[n].mode =
           BitAnd(EntryOf(n).mode, 365)
             + (IF nodes[n].symlink = <<>> THEN S_IFREG ELSE S_IFLNK)
    /\ \A d \in TreeNodes \ {g_root_node} :
         is_dir(nodes[d]) =>
           /\ nodes[d].mode - PermBits(nodes[d].mode) = S_IFDIR
           /\ \A k \in 0..11 :
                HasBit(nodes[d].mode, 2 ^ k) <=>
                  \E n \in LeavesUnder(d) :
                    HasBit(PropagatedBits(EntryOf(n).mode), 2 ^ k)

\* The modes are as C32 says in the archives none of whose entries
\* collides with the tree of those before it.
ModesWithoutCollision == NoCollision => C32_Modes

\* The nodes whose parent is d.
ChildrenOf(d) == { n \in TreeNodes : nodes[n].parent = d }

\* C33: after bootstrap the size of every directory, the root included,
\* is block_size times the number of nodes whose parent it is.
C33_DirectorySize ==
  pc = "serving" =>
    \A d \in TreeNodes :
      is_dir(nodes[d]) =>
        nodes[d].size = block_size * Cardinality(ChildrenOf(d))

\* Bootstrap has given the root two children, one of them a directory
\* with one child.
C33_Witness ==
  /\ pc = "serving"
  /\ Cardinality(ChildrenOf(g_root_node)) = 2
  /\ nodes[g_root_node].size = 2 * block_size
  /\ \E d \in ChildrenOf(g_root_node) :
       /\ is_dir(nodes[d])
       /\ Cardinality(ChildrenOf(d)) = 1

\* The tree before entry k + 1 is inserted: the root alone before the
\* entry pre_initialize stopped at, else what build_tree makes of the
\* entries up to the k-th.
TreeBefore(k) ==
  IF k = g_initialize_index_within_archive
  THEN [ret |-> 0, T |-> insert_root_node]
  ELSE [ret |-> BuiltFrom(k).ret, T |-> BuiltFrom(k).T]

\* The path of the directory a path lies in.
ParentPath(P) ==
  LET k == CHOOSE j \in 1..Len(P) :
             P[j] = "/" /\ \A i \in (j + 1)..Len(P) : P[i] # "/"
  IN IF k = 1 THEN <<"/">> ELSE SubSeq(P, 1, k - 1)

\* The directories on the way to path P, from the root to P's parent.
Visited(P) == Ancestors(P) \cup { <<"/">> }

\* The fields of the directory at path A in tree T; one that is not
\* there yet counts as new: no size, no mtime, no bits.
DirAt(T, A) ==
  IF A \in DOMAIN T.by_name THEN T.nodes[T.by_name[A]]
  ELSE [size |-> 0, mtime |-> 0, mode |-> S_IFDIR]

\* Directory A gets a child with the insertion of P into T: a node on the
\* way to P, or P itself, that T does not have and whose parent is A.
GainsChild(T, A, P) ==
  \E C \in Ancestors(P) \cup {P} : C \notin DOMAIN T.by_name /\ ParentPath(C) = A

\* Entry k + 1 was inserted by the step from tree before to tree after.
Inserted(k, before, after) ==
  /\ before.ret = 0
  /\ after.ret = 0
  /\ \A n \in 1..Len(before.T.nodes) : before.T.nodes[n].index_within_archive # k
  /\ \E n \in 1..Len(after.T.nodes) : after.T.nodes[n].index_within_archive = k

\* The insertion of entry k + 1 widened the mode and raised the mtime of
\* every directory visited.
VisitedTouched(k, before, after) ==
  \A A \in Visited(NormalizedPath(k + 1)) :
    /\ A \in DOMAIN after.by_name
    /\ DirAt(after, A).mode =
         BitOr(DirAt(before, A).mode,
               PropagatedBits(archive_file.entries[k + 1].mode) + S_IFDIR)
    /\ DirAt(after, A).mtime =
         (IF A \in DOMAIN before.by_name
             /\ DirAt(before, A).mtime >= archive_file.entries[k + 1].mtime
          THEN DirAt(before, A).mtime
          ELSE archive_file.entries[k + 1].mtime)

\* C34 as stated: the insertion of a leaf adds block_size to the size of
\* every directory visited, from the root to the leaf's parent, widens
\* its mode and raises its mtime.
C34_AsStated ==
  (pc = "mounted" /\ g_root_node = 0) =>
    \A k \in g_initialize_index_within_archive..(Len(archive_file.entries) - 1) :
      Inserted(k, TreeBefore(k), BuiltFrom(k + 1)) =>
        /\ VisitedTouched(k, TreeBefore(k).T, BuiltFrom(k + 1).T)
        /\ \A A \in Visited(NormalizedPath(k + 1)) :
             DirAt(BuiltFrom(k + 1).T, A).size =
               DirAt(TreeBefore(k).T, A).size + block_size

\* The sizes after the insertion of entry k + 1: a block more for the
\* directories that got a child, the same for the others visited.
BlockPerNewChild(k, before, after) ==
  \A A \in Visited(NormalizedPath(k + 1)) :
    DirAt(after, A).size =
      DirAt(before, A).size
        + (IF GainsChild(before, A, NormalizedPath(k + 1)) THEN block_size ELSE 0)

\* C34, amended: the insertion of a leaf widens the mode and raises the
\* mtime of every directory visited, from the root to the leaf's parent,
\* and adds block_size to the size of those of them that get a new child
\* by it (the leaf's parent, and the parent of every directory made for
\* the leaf), leaving the size of the others as it was; and the tree of
\* the whole archive, made so, is the tree bootstrap ends with.
C34_BlockPerNewChild ==
  /\ []((pc = "mounted" /\ g_root_node = 0) =>
          \A k \in g_initialize_index_within_archive..(Len(archive_file.entries) - 1) :
            Inserted(k, TreeBefore(k), BuiltFrom(k + 1)) =>
              /\ VisitedTouched(k, TreeBefore(k).T, BuiltFrom(k + 1).T)
              /\ BlockPerNewChild(k, TreeBefore(k).T, BuiltFrom(k + 1).T))
  /\ [][(pc = "mounted" /\ g_root_node = 0 /\ pc' = "serving") =>
          BuiltFrom(Len(archive_file.entries)).T = Tree']_vars

\* Bootstrap has inserted a second leaf into a directory made for the
\* first: the root, visited twice, has one child and one block.
C34_Witness ==
  /\ pc = "serving"
  /\ nodes[g_root_node].size = block_size
  /\ \E d \in ChildrenOf(g_root_node) :
       /\ is_dir(nodes[d])
       /\ nodes[d].size = 2 * block_size
       /\ \E n \in ChildrenOf(d), m \in ChildrenOf(d) :
            /\ nodes[n].index_within_archive = 0
            /\ nodes[m].index_within_archive = 1

\* What the library returns to a read of len bytes by the Reader r.
LibraryGives(r, len) == lib_read_data(archive_file, streams[r.archive], len)

\* Reader::read(len) of Reader r returned t (or aborted), the library
\* having returned got.
ReadChecksCount(r, len, got, t) ==
  /\ got.n > len => (t.n = ABORTED /\ t.r = r)
  /\ got.n < 0 => (t.n = -EIO /\ t.r = r)
  /\ (0 <= got.n /\ got.n <= len) =>
       /\ t.n = got.n
       /\ t.r = [r EXCEPT !.offset_within_entry = r.offset_within_entry + got.n]

\* The entry the size-measuring loop of bootstrap reads first is one
\* whose reads return too much.
MeasuresOverrun ==
  /\ Len(archive_file.entries) >= 1
  /\ archive_file.entries[1].over
  /\ ~archive_file.entries[1].size_is_set
  /\ ~S_ISDIR(archive_file.entries[1].mode)

\* C35: Reader::read of any open handle aborts the process when the
\* library returns more than was asked for, returns -EIO when the library
\* returns a negative count, and in both cases leaves the Reader's offset
\* as it was.  A step in which the process is killed inside a read
\* request changes no Reader, no side-buffer metadata and no reply; a read
\* in the loop of advance_offset on an entry whose reads return too much
\* is such a step; bootstrap is killed in its size-measuring loop on such
\* an entry and never serves; a read at or after the Reader's offset that
\* fails on an entry the library cannot read returns -EIO with the
\* Reader's offset as it was; and once killed the process takes no step.
C35_OverrunAborts ==
  /\ []((pc = "serving" /\ rd.pc = "idle") =>
          \A h \in 1..MaxHandles, len \in 1..MaxLen :
            opened[h] >= 0 =>
              ReadChecksCount(handles[h], len, LibraryGives(handles[h], len),
                              ReaderRead(archive_file, handles[h],
                                         streams[handles[h].archive], len)))
  /\ [](MeasuresOverrun => (pc # "serving" /\ phase_ret.B = <<>>))
  /\ [][ /\ (rd'.pc = "aborted" /\ rd.pc # "aborted") =>
              /\ handles' = handles
              /\ g_side_buffer_metadata' = g_side_buffer_metadata
              /\ sb_next_lru_priority' = sb_next_lru_priority
              /\ last' = last
         /\ (pc = "serving" /\ rd.pc = "advance"
               /\ archive_file.entries[opened[rd.h] + 1].over) =>
              rd'.pc = "aborted"
         /\ (pc = "mounted" /\ g_root_node = 0 /\ MeasuresOverrun) =>
              pc' = "aborted"
         /\ (/\ ReadCallStep \/ (rd.pc = "advance" /\ rd'.pc = "idle")
             /\ last'.ret = -EIO /\ last'.arg.fault = "none"
             /\ archive_file.entries[last'.arg.entry + 1].derr
             /\ last'.arg.offset >= handles[last'.arg.h].offset_within_entry) =>
              handles'[last'.arg.h].offset_within_entry
                = handles[last'.arg.h].offset_within_entry
         /\ rd.pc # "aborted"
         /\ pc # "aborted" ]_vars

\* The process has been killed in the loop of advance_offset: the side
\* buffer acquired for the loop is still marked as acquired and the
\* handle's Reader is at offset 0.
C35_Witness ==
  /\ pc = "serving"
  /\ rd.pc = "aborted"
  /\ \E sb \in SideBuffers :
       /\ g_side_buffer_metadata[sb].lru_priority = UINT64_MAX
       /\ IsEmptyMeta(g_side_buffer_metadata[sb])
  /\ \E h \in 1..MaxHandles :
       /\ opened[h] >= 0
       /\ archive_file.entries[opened[h] + 1].over
       /\ handles[h].offset_within_entry = 0

\* File handle h is open: my_open returned 0 for it and my_release has not
\* been called on it.
IsOpen(h) == opened[h] >= 0

\* The node whose size my_read resolves for file handle h (main.cc
\* 1456-1466).
NodeRead(h) == g_nodes_by_index[handles[h].index_within_archive + 1]

\* C36: in every state of serving, between requests, inside the loop of
\* advance_offset and after an abort, the Reader of every open file handle
\* has the index_within_archive the handle was opened with, and
\* g_nodes_by_index has a node with that index; my_open returning 0 opens
\* the handle with the index of the node named by the pathname, which is
\* the node g_nodes_by_index has for it; and the index a handle was opened
\* with changes only when my_release closes the handle.
C36_HandleKeepsIndex ==
  /\ [](pc = "serving" =>
          \A h \in 1..MaxHandles :
            IsOpen(h) =>
              /\ handles[h].index_within_archive = opened[h]
              /\ opened[h] < Len(g_nodes_by_index)
              /\ NodeRead(h) # 0
              /\ nodes[NodeRead(h)].index_within_archive = opened[h])
  /\ [][ /\ (OpenStep /\ last'.ret = 0) =>
              /\ opened'[last'.arg.h] >= 0
              /\ ~IsOpen(last'.arg.h)
              /\ opened'[last'.arg.h]
                   = nodes[g_nodes_by_name[last'.path]].index_within_archive
              /\ g_nodes_by_index[opened'[last'.arg.h] + 1]
                   = g_nodes_by_name[last'.path]
         /\ \A h \in 1..MaxHandles :
              (pc = "serving" /\ IsOpen(h) /\ opened'[h] # opened[h]) =>
                /\ ~IsOpen(h)'
                /\ rd.pc = "idle"
                /\ last'.op = "release"
                /\ last'.arg.h = h ]_vars

\* A read at offset 0 of a handle that had read further has just returned
\* bytes: the Reader the handle had is in the cache, at the handle's entry
\* and past offset 0, while the other handle is open on another entry.
C36_Witness ==
  /\ pc = "serving"
  /\ rd.pc = "idle"
  /\ last.op = "read"
  /\ last.ret > 0
  /\ last.arg.offset = 0
  /\ IsOpen(last.arg.h)
  /\ opened[last.arg.h] > 0
  /\ \E i \in SavedReaders :
       /\ g_saved_readers[i].first.index_within_archive = opened[last.arg.h]
       /\ g_saved_readers[i].first.offset_within_entry > 0
  /\ \E k \in 1..MaxHandles :
       /\ IsOpen(k)
       /\ opened[k] # opened[last.arg.h]

\* The file handles that are open.
OpenHandles == { h \in 1..MaxHandles : IsOpen(h) }

\* The number of decompression streams not freed, that of bootstrap
\* included, with the streams ss of the file requests.
LiveCount(ss) ==
  Cardinality({ id \in 1..MaxStreams : ss[id] # FreeStream })
    + (IF g_initialize_archive.live THEN 1 ELSE 0)

\* The number of slots of the reader cache saved that hold a Reader.
OccupiedCount(saved) ==
  Cardinality({ i \in SavedReaders : saved[i].first # NullReader })

\* acquire_reader returned a: the streams not freed are those of the open
\* file handles, of the cache, and of the Reader returned if there is one.
AcquireKeepsCount(a) ==
  LiveCount(a.G.streams)
    = Cardinality(OpenHandles) + OccupiedCount(a.G.saved)
        + (IF a.r = NullReader THEN 0 ELSE 1)

\* C37: between requests the number of streams not freed is the number of
\* open file handles plus the number of occupied slots of the reader cache,
\* and so at most the number of open handles plus NUM_SAVED_READERS;
\* acquire_reader for any entry, and for the index past the last entry, on
\* which advance_index fails, with and without a failure to open a stream,
\* leaves no stream but those of the handles, of the cache and of the
\* Reader it returns; release_reader of the Reader of any open handle
\* leaves no stream but those of the other handles and of the cache.
C37_StreamCount ==
  (pc = "serving" /\ rd.pc = "idle") =>
    /\ LiveCount(streams) = Cardinality(OpenHandles) + Cardinality(Occupied)
    /\ LiveCount(streams) <= Cardinality(OpenHandles) + NUM_SAVED_READERS
    /\ \A want \in 0..Len(archive_file.entries), fault \in {"none", "oom", "open"} :
         LET a == acquire_reader(archive_file, Serving, want, fault)
         IN /\ AcquireKeepsCount(a)
            /\ want = Len(archive_file.entries) => a.r = NullReader
    /\ \A h \in OpenHandles :
         LET G2 == release_reader(Serving, handles[h])
         IN LiveCount(G2.streams)
              = Cardinality(OpenHandles) - 1 + OccupiedCount(G2.saved)

\* A release has just filled the reader cache while a file handle is
\* open: three streams are live, and acquire_reader asked for
\* the index past the last entry would take a Reader out of the cache and
\* destroy it.
C37_Witness ==
  /\ pc = "serving"
  /\ rd.pc = "idle"
  /\ last.op = "release"
  /\ last.ret = 0
  /\ next_lru_priority = 2
  /\ Occupied = SavedReaders
  /\ Cardinality(OpenHandles) = 1
  /\ LiveCount(streams) = 3
  /\ LET a == acquire_reader(archive_file, Serving, Len(archive_file.entries), "none")
     IN /\ a.r = NullReader
        /\ OccupiedCount(a.G.saved) = 1
        /\ LiveCount(a.G.streams) = 2

\* In the reader cache saved a slot holds no Reader exactly when its
\* priority is 0.
EmptySlotsHavePriorityZero(saved) ==
  \A i \in SavedReaders : saved[i].first = NullReader <=> saved[i].second = 0

\* release_reader(r) called with the globals G, where the cache has an
\* empty slot, keeps every cached Reader, its priority and its stream.
ReleaseDestroysNone(G, r) ==
  (\E i \in SavedReaders : G.saved[i].first = NullReader) =>
    \A i \in SavedReaders :
      G.saved[i].first # NullReader =>
        /\ release_reader(G, r).saved[i] = G.saved[i]
        /\ release_reader(G, r).streams[G.saved[i].first.archive]
             = G.streams[G.saved[i].first.archive]
        /\ G.streams[G.saved[i].first.archive] # FreeStream

\* acquire_side_buffer returning q, while a side buffer is empty, takes an
\* empty one and leaves the metadata of the filled ones as they were.
AcquireDiscardsNone(q) ==
  (\E sb \in SideBuffers : IsEmptyMeta(g_side_buffer_metadata[sb])) =>
    /\ IsEmptyMeta(g_side_buffer_metadata[q.sb])
    /\ \A sb \in Filled : q.meta[sb] = g_side_buffer_metadata[sb]

\* C38: between requests a slot of the reader cache holds no Reader
\* exactly when its priority is 0, and a side buffer is empty exactly when
\* its priority is 0.  So release_reader, called by my_release on the
\* Reader of any open handle, or by my_read after the swap of a backward
\* read (the cache then being as acquire_reader left it, where the same
\* holds), destroys no cached Reader while a slot is empty, and
\* acquire_side_buffer discards no filled buffer while a buffer is empty.
C38_EmptyHasPriorityZero ==
  (pc = "serving" /\ rd.pc = "idle") =>
    /\ EmptySlotsHavePriorityZero(g_saved_readers)
    /\ \A sb \in SideBuffers :
         IsEmptyMeta(g_side_buffer_metadata[sb])
           <=> g_side_buffer_metadata[sb].lru_priority = 0
    /\ \A h \in OpenHandles :
         /\ ReleaseDestroysNone(Serving, handles[h])
         /\ \A fault \in {"none", "oom", "open"} :
              LET a == acquire_reader(archive_file, Serving,
                                      handles[h].index_within_archive, fault)
              IN /\ EmptySlotsHavePriorityZero(a.G.saved)
                 /\ a.r # NullReader => ReleaseDestroysNone(a.G, handles[h])
    /\ AcquireDiscardsNone(acquire_side_buffer(g_side_buffer_metadata))

\* An open has just taken the only cached Reader out of the cache, whose
\* slot is empty again with priority 0 after having had priority 1, while
\* the other file handle is open, one side buffer is filled and one is
\* empty.
C38_Witness ==
  /\ pc = "serving"
  /\ rd.pc = "idle"
  /\ last.op = "open"
  /\ last.ret = 0
  /\ next_lru_priority = 1
  /\ Occupied = {}
  /\ Cardinality(OpenHandles) = 2
  /\ Filled # {}
  /\ Filled # SideBuffers

\* The pathname of the child named rel_name of the directory at path D.
ChildKey(D, rel_name) ==
  IF D = <<"/">> THEN D \o rel_name ELSE D \o <<"/">> \o rel_name

\* The child chain of the directory at key D, as my_readdir walks it.
ChainOf(D) == Children(nodes, g_nodes_by_name[D])

\* The keys of g_nodes_by_name that hold a directory.
DirectoryKeys ==
  { D \in DOMAIN g_nodes_by_name : is_dir(nodes[g_nodes_by_name[D]]) }

\* C39: after bootstrap, for every key P of g_nodes_by_name but "/", the
\* path of P's parent is the key of a directory, that directory's Node is
\* the parent of the Node of P, and the Node of P is at exactly one
\* position of that directory's chain of children; every Node in the chain
\* of a directory is the Node stored under the directory's path joined
\* with the Node's rel_name by one '/'; so getattr succeeds on every name
\* readdir emits for a directory besides '.' and '..', and the rel_names in
\* one chain differ.
C39_LinksAgreeWithNames ==
  pc = "serving" =>
    /\ \A P \in DOMAIN g_nodes_by_name \ { <<"/">> } :
         /\ ParentPath(P) \in DirectoryKeys
         /\ nodes[g_nodes_by_name[P]].parent = g_nodes_by_name[ParentPath(P)]
         /\ Cardinality({ k \in 1..Len(ChainOf(ParentPath(P))) :
                            ChainOf(ParentPath(P))[k] = g_nodes_by_name[P] }) = 1
    /\ \A D \in DirectoryKeys :
         /\ \A k \in 1..Len(ChainOf(D)) :
              /\ ChildKey(D, nodes[ChainOf(D)[k]].rel_name) \in DOMAIN g_nodes_by_name
              /\ g_nodes_by_name[ChildKey(D, nodes[ChainOf(D)[k]].rel_name)]
                   = ChainOf(D)[k]
         /\ \A k \in 3..Len(my_readdir(D, Unlimited).out) :
              my_getattr(ChildKey(D, my_readdir(D, Unlimited).out[k])).ret = 0
         /\ \A j \in 1..Len(ChainOf(D)), k \in 1..Len(ChainOf(D)) :
              j # k => nodes[ChainOf(D)[j]].rel_name # nodes[ChainOf(D)[k]].rel_name

\* Bootstrap has made a directory under a directory under the root, with
\* a leaf in it, and the root has two children.
C39_Witness ==
  /\ pc = "serving"
  /\ Len(ChainOf(<<"/">>)) = 2
  /\ \E P \in DirectoryKeys \ { <<"/">> } :
       /\ ParentPath(P) # <<"/">>
       /\ Len(ChainOf(P)) = 1
       /\ ~is_dir(nodes[ChainOf(P)[1]])

====
